---- MODULE Spec2Model ----
(***************************************************************************)
(* A model of the wuffs token tables (lang/token/list.go), of Expr.Eq      *)
(* (lang/ast), of the GIF and zlib decoders (std/gif, std/zlib) and of the *)
(* coroutine-lowering C generator (cmd/wuffs-c/internal/cgen).             *)
(*                                                                         *)
(* The module holds several specifications, one per subsystem:             *)
(*   SpecForms  the operator-form tables and the package init that adds    *)
(*              their fixed points;                                        *)
(*   SpecLex    the greedy suffix lexer driven by the lexers table;        *)
(*   SpecGen    the per-function emission of the C generator;              *)
(*   SpecCoro   the suspension-point counter up to its limit;              *)
(*   SpecRun    calls of generated public member functions on a receiver;  *)
(*   SpecMap    interning of names in a Map and the ID range predicates;   *)
(*   SpecEq     calls of Expr.Eq on pairs of expression nodes;             *)
(*   SpecGif    calls of decode_config and decode_frame on a decoder;      *)
(*   SpecJump   break and continue jumps and their jump target numbers;    *)
(*   SpecLoop   the text of while loops and io_binds;                      *)
(*   SpecIter   the text of iterate loops;                                 *)
(*   SpecRead   the text of a read of N bits, written and run;             *)
(*   SpecArgs   the argument checks of a function, written and run;        *)
(*   SpecIterRun  the text of an iterate, run over a slice;                *)
(*   SpecCopy   the loop of the GIF decoder's copy_to_image_buffer;        *)
(*   SpecZlib   the zlib decoder's decode over suspensions;                *)
(*   SpecSym    Eq of expressions and of types on exchanged arguments.     *)
(* Each specification moves its own variables and leaves the others at     *)
(* their initial values.                                                   *)
(***************************************************************************)
EXTENDS Integers, Sequences, FiniteSets, TLC

VARIABLES
  \* lang/token: the three form tables, whether init() has run, last query
  unaryForms, binaryForms, associativeForms, formsInit, formRes,
  \* lang/token: the tokenizer's remaining input, tokens so far, position
  lexSrc, lexToks, lexPc,
  \* cgen: g.currFunk, g.funks, the position in gatherFuncImpl, the error it
  \* returned, the statements of the body visited so far, the output buffer
  currFunk, funks, genPc, gErr, astBody, out,
  \* cgen: a funk late in a long function, and the counter it started from
  coroFunk, coroStart,
  \* generated code: the receiver struct, the last call and its result, the
  \* number of calls made
  self, lastCall, nCalls,
  \* lang/token: a Map's byName and byID fields, the last call on it
  mapByName, mapByID, mapRes,
  \* lang/ast: the receiver and the argument of a call of Eq, its result
  eqN, eqO, eqRes,
  \* std/gif: the decoder struct, the last call of a public function on it
  \* and the number of calls made
  gif, gifCall, gifCalls,
  \* cgen: a funk while jumps are written, the loops in the order they were
  \* first asked for, the last jump written
  jumpFunk, jumpOrder, jumpRes,
  \* cgen: a funk while loops and io_binds are written, the statements
  \* written so far, and where in bBody the text of the last one starts
  loopFunk, loopBody, loopFrom,
  \* generated code: a run of the text of a read of N bits, of the text of
  \* an iterate, and std: a run of copy_to_image_buffer and of zlib's decode
  readRun, iterRun, copyRun, zlibRun,
  \* cgen: the header written for a function, and a call of it
  argRun

formVars == <<unaryForms, binaryForms, associativeForms, formsInit, formRes>>
lexVars == <<lexSrc, lexToks, lexPc>>
genVars == <<currFunk, funks, genPc, gErr, astBody, out>>
coroVars == <<coroFunk, coroStart>>
runVars == <<self, lastCall, nCalls>>
mapVars == <<mapByName, mapByID, mapRes>>
eqVars == <<eqN, eqO, eqRes>>
gifVars == <<gif, gifCall, gifCalls>>
jumpVars == <<jumpFunk, jumpOrder, jumpRes>>
loopVars == <<loopFunk, loopBody, loopFrom>>
execVars == <<readRun, iterRun, copyRun, zlibRun, argRun>>
extVars == <<mapVars, eqVars, gifVars, jumpVars, loopVars, execVars>>
vars == <<formVars, lexVars, genVars, coroVars, runVars, extVars>>

(***************************************************************************)
(* Bounds of the model.                                                    *)
(***************************************************************************)
\* Form queries are made for every ID in 0..MaxQueryID and for two far IDs (the first user ID and the largest integer TLC holds).
MaxQueryID == 127
\* Tokenizer inputs are concatenations of at most MaxChunks chunks.
MaxChunks == 3
\* A function body has at most MaxBody top-level statements.
MaxBody == 2
\* The suspension-point counter starts at 0 or within NearCap of its limit.
NearCap == 3
\* At most MaxPoints suspension points are written from a starting counter.
MaxPoints == 6
\* At most MaxCalls calls are made on the receiver.
MaxCalls == 4
\* A Map holds at most MaxUser names of its own.
MaxUser == 2
\* At most MaxGifCalls calls are made on a GIF decoder.
MaxGifCalls == 4
\* The loops of a function are the addresses 1..MaxLoops.
MaxLoops == 3
\* At most MaxJumps jump statements are written into one buffer.
MaxJumps == 3
\* At most MaxLoopStmts while and io_bind statements are written in a row.
MaxLoopStmts == 2
\* The caller of a suspended read supplies at most MaxSupply bytes at a time, and a reader then holds at most as many.
MaxSupply == 3
\* The slice an iterate runs over holds at most MaxSliceLen bytes.
MaxSliceLen == 27
\* A call of copy_to_image_buffer finds at most MaxPixels bytes in
\* uncompressed, or that many fewer than 4096; the frame and the image are
\* at most MaxWidth wide and MaxHeight high.
MaxPixels == 3
MaxWidth == 2
MaxHeight == 1
\* The deflate payload is MaxOut bytes, and a decode is suspended at most
\* MaxSuspensions times.
MaxOut == 3
MaxSuspensions == 3


(***************************************************************************)
(* lang/token/list.go: the ID catalog.                                     *)
(***************************************************************************)
\* Token IDs of the symbolic range (list.go lines 202-323), in decimal.
IDInvalid == 0
IDOpenParen == 2
IDCloseParen == 3
IDOpenBracket == 4
IDCloseBracket == 5
IDOpenCurly == 6
IDCloseCurly == 7
IDDot == 8
IDDotDot == 9
IDComma == 10
IDExclam == 11
IDQuestion == 12
IDColon == 13
IDSemicolon == 14
IDDollar == 15
IDEq == 16
IDPlusEq == 17
IDMinusEq == 18
IDStarEq == 19
IDSlashEq == 20
IDShiftLEq == 21
IDShiftREq == 22
IDAmpEq == 23
IDPipeEq == 24
IDHatEq == 25
IDPercentEq == 26
IDTildeModPlusEq == 27
IDTildeModMinusEq == 28
IDTildeSatPlusEq == 29
IDTildeSatMinusEq == 30
IDEqColon == 31
IDPlus == 33
IDMinus == 34
IDStar == 35
IDSlash == 36
IDShiftL == 37
IDShiftR == 38
IDAmp == 39
IDPipe == 40
IDHat == 41
IDPercent == 42
IDTildeModPlus == 43
IDTildeModMinus == 44
IDTildeSatPlus == 45
IDTildeSatMinus == 46
IDNotEq == 48
IDLessThan == 49
IDLessEq == 50
IDEqEq == 51
IDGreaterEq == 52
IDGreaterThan == 53
IDAnd == 56
IDOr == 57
IDNot == 58
IDAs == 59
IDRef == 60
IDDeref == 61
IDXUnaryPlus == 64
IDXUnaryMinus == 65
IDXUnaryNot == 66
IDXUnaryRef == 67
IDXUnaryDeref == 68
IDXBinaryPlus == 72
IDXBinaryMinus == 73
IDXBinaryStar == 74
IDXBinarySlash == 75
IDXBinaryShiftL == 76
IDXBinaryShiftR == 77
IDXBinaryAmp == 78
IDXBinaryPipe == 79
IDXBinaryHat == 80
IDXBinaryPercent == 81
IDXBinaryTildeModPlus == 82
IDXBinaryTildeModMinus == 83
IDXBinaryTildeSatPlus == 84
IDXBinaryTildeSatMinus == 85
IDXBinaryNotEq == 86
IDXBinaryLessThan == 87
IDXBinaryLessEq == 88
IDXBinaryEqEq == 89
IDXBinaryGreaterEq == 90
IDXBinaryGreaterThan == 91
IDXBinaryAnd == 92
IDXBinaryOr == 93
IDXBinaryAs == 94
IDXAssociativePlus == 96
IDXAssociativeStar == 97
IDXAssociativeAmp == 98
IDXAssociativePipe == 99
IDXAssociativeHat == 100
IDXAssociativeAnd == 101
IDXAssociativeOr == 102
nBuiltInSymbolicIDs == 112
nBuiltInIDs == 1024

\* lang/token/list.go: the range limits and the remaining built-in IDs.
minAssign == 16
maxAssign == 31
minOp == 32
minAmbiguousOp == 32
maxAmbiguousOp == 63
minXOp == 64
maxXOp == 111
maxOp == 111
minKeyword == 112
maxKeyword == 143
IDFunc == 112
IDAssert == 113
IDWhile == 114
IDIf == 115
IDElse == 116
IDReturn == 117
IDBreak == 118
IDContinue == 119
IDStruct == 120
IDUse == 121
IDVar == 122
IDPre == 123
IDInv == 124
IDPost == 125
IDVia == 126
IDPub == 127
IDPri == 128
IDError == 129
IDSuspension == 130
IDPackageID == 131
IDConst == 132
IDTry == 133
IDIterate == 134
IDYield == 135
IDIOBind == 136
minTypeModifier == 144
maxTypeModifier == 159
IDArray == 144
IDNptr == 145
IDPtr == 146
IDSlice == 147
IDTable == 148
minBuiltInLiteral == 160
minBuiltInNumLiteral == 162
maxBuiltInNumLiteral == 175
maxBuiltInLiteral == 175
IDFalse == 160
IDTrue == 161
ID0 == 162
ID1 == 163
ID2 == 164
ID4 == 165
ID8 == 166
ID16 == 167
ID32 == 168
ID64 == 169
ID128 == 170
ID256 == 171
minBuiltInIdent == 256
minNumTypeOrIdeal == 287
minNumType == 288
maxNumType == 295
maxNumTypeOrIdeal == 295
maxBuiltInIdent == 1023
IDEmptyStruct == 256
IDBool == 257
IDRectIEU32 == 264
IDRectIIU32 == 265
IDImageBuffer == 272
IDImageConfig == 273
IDIOReader == 274
IDIOWriter == 275
IDStatus == 276
IDT1 == 282
IDT2 == 283
IDDagger1 == 284
IDDagger2 == 285
IDPilcrow == 286
IDDoubleZ == 287
IDI8 == 288
IDI16 == 289
IDI32 == 290
IDI64 == 291
IDU8 == 292
IDU16 == 293
IDU32 == 294
IDU64 == 295
IDUnderscore == 304
IDThis == 305
IDIn == 306
IDOut == 307
IDBase == 308
IDUnreadU8 == 320
IDReadU8 == 321
IDReadU16BE == 322
IDReadU16LE == 323
IDReadU24BE == 324
IDReadU24LE == 325
IDReadU32BE == 326
IDReadU32LE == 327
IDReadU40BE == 328
IDReadU40LE == 329
IDReadU48BE == 330
IDReadU48LE == 331
IDReadU56BE == 332
IDReadU56LE == 333
IDReadU64BE == 334
IDReadU64LE == 335
IDWriteU8 == 353
IDWriteU16BE == 354
IDWriteU16LE == 355
IDWriteU24BE == 356
IDWriteU24LE == 357
IDWriteU32BE == 358
IDWriteU32LE == 359
IDWriteU40BE == 360
IDWriteU40LE == 361
IDWriteU48BE == 362
IDWriteU48LE == 363
IDWriteU56BE == 364
IDWriteU56LE == 365
IDWriteU64BE == 366
IDWriteU64LE == 367
IDSetLimit == 384
IDSetMark == 385
IDSinceMark == 386
IDSkip32 == 387
IDSkip64 == 388
IDCopyFromHistory32 == 400
IDCopyFromReader32 == 401
IDCopyFromSlice == 402
IDCopyFromSlice32 == 403
IDReset == 512
IDSet == 513
IDUnroll == 514
IDSetMaxExclusiveX == 528
IDSetMaxExclusiveY == 529
IDSetMaxInclusiveX == 530
IDSetMaxInclusiveY == 531
IDSetMinInclusiveX == 532
IDSetMinInclusiveY == 533
IDHighBits == 544
IDLowBits == 545
IDMax == 546
IDMin == 547
IDIsError == 560
IDIsOK == 561
IDIsSuspension == 562
IDAvailable == 576
IDHeight == 577
IDLength == 578
IDPrefix == 579
IDRow == 580
IDStride == 581
IDSuffix == 582
IDWidth == 583

\* builtInsByID: the name of every built-in ID, "" where the literal has no
\* entry.  The four non-ASCII names are written as their code points.
builtInsByID ==
  [x \in 0..(nBuiltInIDs - 1) |->
    CASE x = IDOpenParen -> "("
      [] x = IDCloseParen -> ")"
      [] x = IDOpenBracket -> "["
      [] x = IDCloseBracket -> "]"
      [] x = IDOpenCurly -> "{"
      [] x = IDCloseCurly -> "}"
      [] x = IDDot -> "."
      [] x = IDDotDot -> ".."
      [] x = IDComma -> ","
      [] x = IDExclam -> "!"
      [] x = IDQuestion -> "?"
      [] x = IDColon -> ":"
      [] x = IDSemicolon -> ";"
      [] x = IDDollar -> "$"
      [] x = IDEq -> "="
      [] x = IDPlusEq -> "+="
      [] x = IDMinusEq -> "-="
      [] x = IDStarEq -> "*="
      [] x = IDSlashEq -> "/="
      [] x = IDShiftLEq -> "<<="
      [] x = IDShiftREq -> ">>="
      [] x = IDAmpEq -> "&="
      [] x = IDPipeEq -> "|="
      [] x = IDHatEq -> "^="
      [] x = IDPercentEq -> "%="
      [] x = IDTildeModPlusEq -> "~mod+="
      [] x = IDTildeModMinusEq -> "~mod-="
      [] x = IDTildeSatPlusEq -> "~sat+="
      [] x = IDTildeSatMinusEq -> "~sat-="
      [] x = IDEqColon -> "=:"
      [] x = IDPlus -> "+"
      [] x = IDMinus -> "-"
      [] x = IDStar -> "*"
      [] x = IDSlash -> "/"
      [] x = IDShiftL -> "<<"
      [] x = IDShiftR -> ">>"
      [] x = IDAmp -> "&"
      [] x = IDPipe -> "|"
      [] x = IDHat -> "^"
      [] x = IDPercent -> "%"
      [] x = IDTildeModPlus -> "~mod+"
      [] x = IDTildeModMinus -> "~mod-"
      [] x = IDTildeSatPlus -> "~sat+"
      [] x = IDTildeSatMinus -> "~sat-"
      [] x = IDNotEq -> "!="
      [] x = IDLessThan -> "<"
      [] x = IDLessEq -> "<="
      [] x = IDEqEq -> "=="
      [] x = IDGreaterEq -> ">="
      [] x = IDGreaterThan -> ">"
      [] x = IDAnd -> "and"
      [] x = IDOr -> "or"
      [] x = IDNot -> "not"
      [] x = IDAs -> "as"
      [] x = IDRef -> "ref"
      [] x = IDDeref -> "deref"
      [] x = IDFunc -> "func"
      [] x = IDAssert -> "assert"
      [] x = IDWhile -> "while"
      [] x = IDIf -> "if"
      [] x = IDElse -> "else"
      [] x = IDReturn -> "return"
      [] x = IDBreak -> "break"
      [] x = IDContinue -> "continue"
      [] x = IDStruct -> "struct"
      [] x = IDUse -> "use"
      [] x = IDVar -> "var"
      [] x = IDPre -> "pre"
      [] x = IDInv -> "inv"
      [] x = IDPost -> "post"
      [] x = IDVia -> "via"
      [] x = IDPub -> "pub"
      [] x = IDPri -> "pri"
      [] x = IDError -> "error"
      [] x = IDSuspension -> "suspension"
      [] x = IDPackageID -> "packageid"
      [] x = IDConst -> "const"
      [] x = IDTry -> "try"
      [] x = IDIterate -> "iterate"
      [] x = IDYield -> "yield"
      [] x = IDIOBind -> "io_bind"
      [] x = IDArray -> "array"
      [] x = IDNptr -> "nptr"
      [] x = IDPtr -> "ptr"
      [] x = IDSlice -> "slice"
      [] x = IDTable -> "table"
      [] x = IDFalse -> "false"
      [] x = IDTrue -> "true"
      [] x = ID0 -> "0"
      [] x = ID1 -> "1"
      [] x = ID2 -> "2"
      [] x = ID4 -> "4"
      [] x = ID8 -> "8"
      [] x = ID16 -> "16"
      [] x = ID32 -> "32"
      [] x = ID64 -> "64"
      [] x = ID128 -> "128"
      [] x = ID256 -> "256"
      [] x = IDEmptyStruct -> "empty_struct"
      [] x = IDBool -> "bool"
      [] x = IDRectIEU32 -> "rect_ie_u32"
      [] x = IDRectIIU32 -> "rect_ii_u32"
      [] x = IDImageBuffer -> "image_buffer"
      [] x = IDImageConfig -> "image_config"
      [] x = IDIOReader -> "io_reader"
      [] x = IDIOWriter -> "io_writer"
      [] x = IDStatus -> "status"
      [] x = IDT1 -> "T1"
      [] x = IDT2 -> "T2"
      [] x = IDDagger1 -> "U+2020"
      [] x = IDDagger2 -> "U+2021"
      [] x = IDPilcrow -> "U+00B6"
      [] x = IDDoubleZ -> "U+2124"
      [] x = IDI8 -> "i8"
      [] x = IDI16 -> "i16"
      [] x = IDI32 -> "i32"
      [] x = IDI64 -> "i64"
      [] x = IDU8 -> "u8"
      [] x = IDU16 -> "u16"
      [] x = IDU32 -> "u32"
      [] x = IDU64 -> "u64"
      [] x = IDUnderscore -> "_"
      [] x = IDThis -> "this"
      [] x = IDIn -> "in"
      [] x = IDOut -> "out"
      [] x = IDBase -> "base"
      [] x = IDUnreadU8 -> "unread_u8"
      [] x = IDReadU8 -> "read_u8"
      [] x = IDReadU16BE -> "read_u16be"
      [] x = IDReadU16LE -> "read_u16le"
      [] x = IDReadU24BE -> "read_u24be"
      [] x = IDReadU24LE -> "read_u24le"
      [] x = IDReadU32BE -> "read_u32be"
      [] x = IDReadU32LE -> "read_u32le"
      [] x = IDReadU40BE -> "read_u40be"
      [] x = IDReadU40LE -> "read_u40le"
      [] x = IDReadU48BE -> "read_u48be"
      [] x = IDReadU48LE -> "read_u48le"
      [] x = IDReadU56BE -> "read_u56be"
      [] x = IDReadU56LE -> "read_u56le"
      [] x = IDReadU64BE -> "read_u64be"
      [] x = IDReadU64LE -> "read_u64le"
      [] x = IDWriteU8 -> "write_u8"
      [] x = IDWriteU16BE -> "write_u16be"
      [] x = IDWriteU16LE -> "write_u16le"
      [] x = IDWriteU24BE -> "write_u24be"
      [] x = IDWriteU24LE -> "write_u24le"
      [] x = IDWriteU32BE -> "write_u32be"
      [] x = IDWriteU32LE -> "write_u32le"
      [] x = IDWriteU40BE -> "write_u40be"
      [] x = IDWriteU40LE -> "write_u40le"
      [] x = IDWriteU48BE -> "write_u48be"
      [] x = IDWriteU48LE -> "write_u48le"
      [] x = IDWriteU56BE -> "write_u56be"
      [] x = IDWriteU56LE -> "write_u56le"
      [] x = IDWriteU64BE -> "write_u64be"
      [] x = IDWriteU64LE -> "write_u64le"
      [] x = IDSetLimit -> "set_limit"
      [] x = IDSetMark -> "set_mark"
      [] x = IDSinceMark -> "since_mark"
      [] x = IDSkip32 -> "skip32"
      [] x = IDSkip64 -> "skip64"
      [] x = IDCopyFromHistory32 -> "copy_from_history32"
      [] x = IDCopyFromReader32 -> "copy_from_reader32"
      [] x = IDCopyFromSlice -> "copy_from_slice"
      [] x = IDCopyFromSlice32 -> "copy_from_slice32"
      [] x = IDReset -> "reset"
      [] x = IDSet -> "set"
      [] x = IDUnroll -> "unroll"
      [] x = IDSetMaxExclusiveX -> "set_max_exclusive_x"
      [] x = IDSetMaxExclusiveY -> "set_max_exclusive_y"
      [] x = IDSetMaxInclusiveX -> "set_max_inclusive_x"
      [] x = IDSetMaxInclusiveY -> "set_max_inclusive_y"
      [] x = IDSetMinInclusiveX -> "set_min_inclusive_x"
      [] x = IDSetMinInclusiveY -> "set_min_inclusive_y"
      [] x = IDHighBits -> "high_bits"
      [] x = IDLowBits -> "low_bits"
      [] x = IDMax -> "max"
      [] x = IDMin -> "min"
      [] x = IDIsError -> "is_error"
      [] x = IDIsOK -> "is_ok"
      [] x = IDIsSuspension -> "is_suspension"
      [] x = IDAvailable -> "available"
      [] x = IDHeight -> "height"
      [] x = IDLength -> "length"
      [] x = IDPrefix -> "prefix"
      [] x = IDRow -> "row"
      [] x = IDStride -> "stride"
      [] x = IDSuffix -> "suffix"
      [] x = IDWidth -> "width"
      [] OTHER -> ""]

(***************************************************************************)
(* lang/token/list.go: the form tables as written in the source (the       *)
(* composite literals), before init() runs.                                *)
(***************************************************************************)

unaryFormsLit ==
  [x \in 0..(nBuiltInSymbolicIDs - 1) |->
    CASE x = IDPlus -> IDXUnaryPlus
      [] x = IDMinus -> IDXUnaryMinus
      [] x = IDNot -> IDXUnaryNot
      [] x = IDRef -> IDXUnaryRef
      [] x = IDDeref -> IDXUnaryDeref
      [] OTHER -> 0]
\* The mutant of the binaryForms literal: the fourteen op= entries are left
\* out, so that only the ambiguous operators have a binary form.
binaryFormsLitNoAssign ==
  [x \in 0..(nBuiltInSymbolicIDs - 1) |->
    CASE x = IDPlus -> IDXBinaryPlus
      [] x = IDMinus -> IDXBinaryMinus
      [] x = IDStar -> IDXBinaryStar
      [] x = IDSlash -> IDXBinarySlash
      [] x = IDShiftL -> IDXBinaryShiftL
      [] x = IDShiftR -> IDXBinaryShiftR
      [] x = IDAmp -> IDXBinaryAmp
      [] x = IDPipe -> IDXBinaryPipe
      [] x = IDHat -> IDXBinaryHat
      [] x = IDPercent -> IDXBinaryPercent
      [] x = IDTildeModPlus -> IDXBinaryTildeModPlus
      [] x = IDTildeModMinus -> IDXBinaryTildeModMinus
      [] x = IDTildeSatPlus -> IDXBinaryTildeSatPlus
      [] x = IDTildeSatMinus -> IDXBinaryTildeSatMinus
      [] x = IDNotEq -> IDXBinaryNotEq
      [] x = IDLessThan -> IDXBinaryLessThan
      [] x = IDLessEq -> IDXBinaryLessEq
      [] x = IDEqEq -> IDXBinaryEqEq
      [] x = IDGreaterEq -> IDXBinaryGreaterEq
      [] x = IDGreaterThan -> IDXBinaryGreaterThan
      [] x = IDAnd -> IDXBinaryAnd
      [] x = IDOr -> IDXBinaryOr
      [] x = IDAs -> IDXBinaryAs
      [] OTHER -> 0]
binaryFormsLit ==
  [x \in 0..(nBuiltInSymbolicIDs - 1) |->
    CASE x = IDPlusEq -> IDXBinaryPlus
      [] x = IDMinusEq -> IDXBinaryMinus
      [] x = IDStarEq -> IDXBinaryStar
      [] x = IDSlashEq -> IDXBinarySlash
      [] x = IDShiftLEq -> IDXBinaryShiftL
      [] x = IDShiftREq -> IDXBinaryShiftR
      [] x = IDAmpEq -> IDXBinaryAmp
      [] x = IDPipeEq -> IDXBinaryPipe
      [] x = IDHatEq -> IDXBinaryHat
      [] x = IDPercentEq -> IDXBinaryPercent
      [] x = IDTildeModPlusEq -> IDXBinaryTildeModPlus
      [] x = IDTildeModMinusEq -> IDXBinaryTildeModMinus
      [] x = IDTildeSatPlusEq -> IDXBinaryTildeSatPlus
      [] x = IDTildeSatMinusEq -> IDXBinaryTildeSatMinus
      [] x = IDPlus -> IDXBinaryPlus
      [] x = IDMinus -> IDXBinaryMinus
      [] x = IDStar -> IDXBinaryStar
      [] x = IDSlash -> IDXBinarySlash
      [] x = IDShiftL -> IDXBinaryShiftL
      [] x = IDShiftR -> IDXBinaryShiftR
      [] x = IDAmp -> IDXBinaryAmp
      [] x = IDPipe -> IDXBinaryPipe
      [] x = IDHat -> IDXBinaryHat
      [] x = IDPercent -> IDXBinaryPercent
      [] x = IDTildeModPlus -> IDXBinaryTildeModPlus
      [] x = IDTildeModMinus -> IDXBinaryTildeModMinus
      [] x = IDTildeSatPlus -> IDXBinaryTildeSatPlus
      [] x = IDTildeSatMinus -> IDXBinaryTildeSatMinus
      [] x = IDNotEq -> IDXBinaryNotEq
      [] x = IDLessThan -> IDXBinaryLessThan
      [] x = IDLessEq -> IDXBinaryLessEq
      [] x = IDEqEq -> IDXBinaryEqEq
      [] x = IDGreaterEq -> IDXBinaryGreaterEq
      [] x = IDGreaterThan -> IDXBinaryGreaterThan
      [] x = IDAnd -> IDXBinaryAnd
      [] x = IDOr -> IDXBinaryOr
      [] x = IDAs -> IDXBinaryAs
      [] OTHER -> 0]
associativeFormsLit ==
  [x \in 0..(nBuiltInSymbolicIDs - 1) |->
    CASE x = IDPlus -> IDXAssociativePlus
      [] x = IDStar -> IDXAssociativeStar
      [] x = IDAmp -> IDXAssociativeAmp
      [] x = IDPipe -> IDXAssociativePipe
      [] x = IDHat -> IDXAssociativeHat
      [] x = IDAnd -> IDXAssociativeAnd
      [] x = IDOr -> IDXAssociativeOr
      [] OTHER -> 0]

\* The mutant of addXForms: the implicit entries are never added.
addXFormsNoImplicit(table) == table

\* addXForms modifies table so that, if table[x] == y, then table[y] = y.
addXForms(table) ==
  LET implicitEntries == {table[x] : x \in DOMAIN table} \ {0}
  IN  [y \in DOMAIN table |-> IF y \in implicitEntries THEN y ELSE table[y]]

\* x.UnaryForm(), x.BinaryForm(), x.AssociativeForm(): 0 outside the table.
UnaryForm(x) == IF x >= nBuiltInSymbolicIDs THEN 0 ELSE unaryForms[x]
BinaryForm(x) == IF x >= nBuiltInSymbolicIDs THEN 0 ELSE binaryForms[x]
AssociativeForm(x) == IF x >= nBuiltInSymbolicIDs THEN 0 ELSE associativeForms[x]

QueryIDs == (0..MaxQueryID) \cup {nBuiltInIDs, 2147483647}

NoFormRes == [kind |-> "none", x |-> 0, y |-> 0, yy |-> 0]

FormsInit ==
  /\ unaryForms = unaryFormsLit
  /\ binaryForms = binaryFormsLit
  /\ associativeForms = associativeFormsLit
  /\ formsInit = FALSE
  /\ formRes = NoFormRes

\* func init() { addXForms(&unaryForms); addXForms(&binaryForms); ... }
InitForms ==
  /\ ~formsInit
  /\ unaryForms' = addXForms(unaryForms)
  /\ binaryForms' = addXForms(binaryForms)
  /\ associativeForms' = addXForms(associativeForms)
  /\ formsInit' = TRUE
  /\ UNCHANGED formRes

\* A caller asks for the unary form of x, and for the unary form of that.
CallUnaryForm ==
  /\ formsInit
  /\ \E x \in QueryIDs :
       formRes' = [kind |-> "unary", x |-> x, y |-> UnaryForm(x),
                   yy |-> UnaryForm(UnaryForm(x))]
  /\ UNCHANGED <<unaryForms, binaryForms, associativeForms, formsInit>>

CallBinaryForm ==
  /\ formsInit
  /\ \E x \in QueryIDs :
       formRes' = [kind |-> "binary", x |-> x, y |-> BinaryForm(x),
                   yy |-> BinaryForm(BinaryForm(x))]
  /\ UNCHANGED <<unaryForms, binaryForms, associativeForms, formsInit>>

CallAssociativeForm ==
  /\ formsInit
  /\ \E x \in QueryIDs :
       formRes' = [kind |-> "associative", x |-> x, y |-> AssociativeForm(x),
                   yy |-> AssociativeForm(AssociativeForm(x))]
  /\ UNCHANGED <<unaryForms, binaryForms, associativeForms, formsInit>>

(***************************************************************************)
(* lang/token/list.go: the lexer tables.  A byte is a one-character        *)
(* string, an input a sequence of bytes.                                   *)
(***************************************************************************)
Flatten(ss) ==
  LET RECURSIVE F(_)
      F(i) == IF i > Len(ss) THEN <<>> ELSE ss[i] \o F(i + 1)
  IN  F(1)

\* The pieces inputs are made of: every byte that starts a lexers list, the
\* bytes and words that continue one, and bytes that do neither.
Chunks ==
  { <<".">>, <<"!">>, <<"&">>, <<"|">>, <<"^">>, <<"+">>, <<"-">>, <<"*">>,
    <<"/">>, <<"%">>, <<"=">>, <<"<">>, <<">">>, <<"~">>, <<":">>, <<"(">>,
    <<"m", "o", "d", "+">>, <<"m", "o", "d", "-">>,
    <<"s", "a", "t", "+">>, <<"s", "a", "t", "-">>, <<"m", "o">>, <<"x">> }

Bytes == UNION { {ch[i] : i \in 1..Len(ch)} : ch \in Chunks }
          \cup {")", "[", "]", "{", "}", ",", "?", ";", "$"}

LexInputs ==
  { Flatten(cs) : cs \in UNION { [1..k -> Chunks] : k \in 0..MaxChunks } }

\* squiggles are built-in IDs that aren't alpha-numeric.
squiggles ==
  [c \in Bytes |->
    CASE c = "(" -> IDOpenParen
      [] c = ")" -> IDCloseParen
      [] c = "[" -> IDOpenBracket
      [] c = "]" -> IDCloseBracket
      [] c = "{" -> IDOpenCurly
      [] c = "}" -> IDCloseCurly
      [] c = "," -> IDComma
      [] c = "?" -> IDQuestion
      [] c = ":" -> IDColon
      [] c = ";" -> IDSemicolon
      [] c = "$" -> IDDollar
      [] OTHER -> 0]

\* The mutant of lexers: the '<' list with its shortest suffix first.
lexersShortFirst ==
  [c \in Bytes |->
    CASE c = "<" -> << [suffix |-> <<>>, id |-> IDLessThan],
                       [suffix |-> <<"=">>, id |-> IDLessEq],
                       [suffix |-> <<"<">>, id |-> IDShiftL],
                       [suffix |-> <<"<", "=">>, id |-> IDShiftLEq] >>
      [] c = "=" -> << [suffix |-> <<"=">>, id |-> IDEqEq],
                       [suffix |-> <<>>, id |-> IDEq] >>
      [] OTHER -> <<>>]

\* A second mutant of lexers: the '.' list without its empty-suffix entry.
lexersNoFallback ==
  [c \in Bytes |->
    CASE c = "." -> << [suffix |-> <<".">>, id |-> IDDotDot] >>
      [] c = "<" -> << [suffix |-> <<"<", "=">>, id |-> IDShiftLEq],
                       [suffix |-> <<"<">>, id |-> IDShiftL],
                       [suffix |-> <<"=">>, id |-> IDLessEq],
                       [suffix |-> <<>>, id |-> IDLessThan] >>
      [] c = "~" -> << [suffix |-> <<"m", "o", "d", "+">>, id |-> IDTildeModPlus] >>
      [] OTHER -> <<>>]

\* lexers lex ambiguous 1-byte squiggles.  The order of the elements
\* matters: the first match wins.
lexers ==
  [c \in Bytes |->
    CASE c = "." -> <<[suffix |-> <<".">>, id |-> IDDotDot],
                   [suffix |-> <<>>, id |-> IDDot]>>
      [] c = "!" -> <<[suffix |-> <<"=">>, id |-> IDNotEq],
                   [suffix |-> <<>>, id |-> IDExclam]>>
      [] c = "&" -> <<[suffix |-> <<"=">>, id |-> IDAmpEq],
                   [suffix |-> <<>>, id |-> IDAmp]>>
      [] c = "|" -> <<[suffix |-> <<"=">>, id |-> IDPipeEq],
                   [suffix |-> <<>>, id |-> IDPipe]>>
      [] c = "^" -> <<[suffix |-> <<"=">>, id |-> IDHatEq],
                   [suffix |-> <<>>, id |-> IDHat]>>
      [] c = "+" -> <<[suffix |-> <<"=">>, id |-> IDPlusEq],
                   [suffix |-> <<>>, id |-> IDPlus]>>
      [] c = "-" -> <<[suffix |-> <<"=">>, id |-> IDMinusEq],
                   [suffix |-> <<>>, id |-> IDMinus]>>
      [] c = "*" -> <<[suffix |-> <<"=">>, id |-> IDStarEq],
                   [suffix |-> <<>>, id |-> IDStar]>>
      [] c = "/" -> <<[suffix |-> <<"=">>, id |-> IDSlashEq],
                   [suffix |-> <<>>, id |-> IDSlash]>>
      [] c = "%" -> <<[suffix |-> <<"=">>, id |-> IDPercentEq],
                   [suffix |-> <<>>, id |-> IDPercent]>>
      [] c = "=" -> <<[suffix |-> <<"=">>, id |-> IDEqEq],
                   [suffix |-> <<":">>, id |-> IDEqColon],
                   [suffix |-> <<>>, id |-> IDEq]>>
      [] c = "<" -> <<[suffix |-> <<"<", "=">>, id |-> IDShiftLEq],
                   [suffix |-> <<"<">>, id |-> IDShiftL],
                   [suffix |-> <<"=">>, id |-> IDLessEq],
                   [suffix |-> <<>>, id |-> IDLessThan]>>
      [] c = ">" -> <<[suffix |-> <<">", "=">>, id |-> IDShiftREq],
                   [suffix |-> <<">">>, id |-> IDShiftR],
                   [suffix |-> <<"=">>, id |-> IDGreaterEq],
                   [suffix |-> <<>>, id |-> IDGreaterThan]>>
      [] c = "~" -> <<[suffix |-> <<"m", "o", "d", "+", "=">>, id |-> IDTildeModPlusEq],
                   [suffix |-> <<"m", "o", "d", "+">>, id |-> IDTildeModPlus],
                   [suffix |-> <<"m", "o", "d", "-", "=">>, id |-> IDTildeModMinusEq],
                   [suffix |-> <<"m", "o", "d", "-">>, id |-> IDTildeModMinus],
                   [suffix |-> <<"s", "a", "t", "+", "=">>, id |-> IDTildeSatPlusEq],
                   [suffix |-> <<"s", "a", "t", "+">>, id |-> IDTildeSatPlus],
                   [suffix |-> <<"s", "a", "t", "-", "=">>, id |-> IDTildeSatMinusEq],
                   [suffix |-> <<"s", "a", "t", "-">>, id |-> IDTildeSatMinus]>>
      [] OTHER -> <<>>]
HasPrefix(s, p) == Len(p) <= Len(s) /\ SubSeq(s, 1, Len(p)) = p

\* The indices of the entries of list lex whose suffix starts rest.
Matches(lex, rest) == {i \in 1..Len(lex) : HasPrefix(rest, lex[i].suffix)}

\* The tokenizer's loop over a lexers list: the first entry that matches,
\* 0 when none does.
FirstMatch(lex, rest) ==
  IF Matches(lex, rest) = {} THEN 0
  ELSE CHOOSE i \in Matches(lex, rest) : \A j \in Matches(lex, rest) : i <= j

LexInit ==
  /\ lexSrc \in LexInputs
  /\ lexToks = <<>>
  /\ lexPc = "run"

\* The next byte is an unambiguous squiggle: one token of one byte.
LexSquiggle ==
  /\ lexPc = "run" /\ lexSrc # <<>>
  /\ squiggles[Head(lexSrc)] # 0
  /\ lexToks' = Append(lexToks,
        [id |-> squiggles[Head(lexSrc)], n |-> 1, at |-> lexSrc, entry |-> 0])
  /\ lexSrc' = Tail(lexSrc)
  /\ UNCHANGED lexPc

\* The next byte has a lexers list: the first entry whose suffix is a
\* prefix of what follows gives the token; the token is the byte and the
\* suffix.  With no matching entry the byte is not a token.
LexSuffix ==
  /\ lexPc = "run" /\ lexSrc # <<>>
  /\ squiggles[Head(lexSrc)] = 0
  /\ lexers[Head(lexSrc)] # <<>>
  /\ LET lex == lexers[Head(lexSrc)]
         i == FirstMatch(lex, Tail(lexSrc))
     IN  IF i = 0
         THEN /\ lexPc' = "nomatch"
              /\ UNCHANGED <<lexSrc, lexToks>>
         ELSE /\ lexToks' = Append(lexToks,
                    [id |-> lex[i].id, n |-> 1 + Len(lex[i].suffix),
                     at |-> lexSrc, entry |-> i])
              /\ lexSrc' = SubSeq(lexSrc, 2 + Len(lex[i].suffix), Len(lexSrc))
              /\ UNCHANGED lexPc

\* The next byte is in neither table (a letter, a digit, a space): the
\* tables have no say.
LexOther ==
  /\ lexPc = "run" /\ lexSrc # <<>>
  /\ squiggles[Head(lexSrc)] = 0
  /\ lexers[Head(lexSrc)] = <<>>
  /\ lexPc' = "other"
  /\ UNCHANGED <<lexSrc, lexToks>>

(***************************************************************************)
(* cmd/wuffs-c/internal/cgen: the typed AST the generator consumes.        *)
(*                                                                         *)
(* An expression is a record: k is "var" (a leaf), "op" (an operator node  *)
(* with sub-nodes) or "call" (a call that may suspend, CallSuspendible);   *)
(* try says that the node's operator is IDTry, proven is                   *)
(* ProvenNotToSuspend, builtin names the I/O intrinsic called ("" for a    *)
(* user-defined function), name identifies the call site, subs are the     *)
(* node's sub-expressions (LHS, MHS, RHS; for a call, its arguments).      *)
(***************************************************************************)
Var == [k |-> "var", try |-> FALSE, proven |-> FALSE, builtin |-> "",
        name |-> "x", subs |-> <<>>]

Call(name, try, proven) ==
  [k |-> "call", try |-> try, proven |-> proven, builtin |-> "",
   name |-> name, subs |-> <<>>]

\* in.src.read_u32le?()
ReadU32LE ==
  [k |-> "call", try |-> FALSE, proven |-> FALSE, builtin |-> "read_u32le",
   name |-> "r", subs |-> <<>>]

Op(lhs, rhs) ==
  [k |-> "op", try |-> FALSE, proven |-> FALSE, builtin |-> "",
   name |-> "+", subs |-> <<lhs, rhs>>]

\* f?(g?()): a call that may suspend among the arguments of another.
CallWithArg ==
  [k |-> "call", try |-> FALSE, proven |-> FALSE, builtin |-> "",
   name |-> "f", subs |-> <<Call("g", FALSE, FALSE)>>]

Atoms ==
  {Var, Call("f", FALSE, FALSE), Call("f", TRUE, FALSE), Call("f", FALSE, TRUE),
   ReadU32LE}

OpExprs ==
  { Op(a, Call("g", TRUE, FALSE)) :
      a \in {Call("f", TRUE, FALSE), Call("f", TRUE, TRUE)} }
    \cup { Op(Call("f", TRUE, FALSE), ReadU32LE) }


\* n.CallSuspendible(), n.ProvenNotToSuspend(), n.Operator() == t.IDTry
CallSuspendible(n) == n.k = "call"
ProvenNotToSuspend(n) == n.proven
IsTry(n) == n.try

\* n.Suspendible(): the checker's flag that n holds a call that may suspend.
RECURSIVE Suspendible(_)
Suspendible(n) ==
  \/ CallSuspendible(n)
  \/ \E i \in 1..Len(n.subs) : Suspendible(n.subs[i])

(***************************************************************************)
(* 32-bit unsigned counters.  TLC's integers stop short of 2^32, so a      *)
(* uint32 is the pair of its high and low 16-bit halves.                   *)
(***************************************************************************)
U32(hi, lo) == <<hi, lo>>
Z32 == U32(0, 0)

\* x + 1 in uint32 arithmetic (wrapping at 2^32).
U32Inc(x) ==
  IF x[2] < 65535 THEN U32(x[1], x[2] + 1)
  ELSE IF x[1] < 65535 THEN U32(x[1] + 1, 0)
  ELSE Z32

\* x - d in uint32 arithmetic, for 0 <= d <= 65535 (wrapping below 0).
U32Minus(x, d) ==
  IF x[2] >= d THEN U32(x[1], x[2] - d)
  ELSE U32((x[1] + 65535) % 65536, x[2] + 65536 - d)


(***************************************************************************)
(* cmd/wuffs-c/internal/cgen: the emitted C text.  A buffer is a sequence  *)
(* of tokens, one per printed fragment: t names the fragment, n is the     *)
(* small number printed in it, p the suspension point number, x the name.  *)
(***************************************************************************)
Tok(t) == [t |-> t, n |-> 0, p |-> Z32, x |-> ""]
TokN(t, n) == [t |-> t, n |-> n, p |-> Z32, x |-> ""]
TokX(t, x) == [t |-> t, n |-> 0, p |-> Z32, x |-> x]
TokNX(t, n, x) == [t |-> t, n |-> n, p |-> Z32, x |-> x]
TokP(t, p) == [t |-> t, n |-> 0, p |-> p, x |-> ""]
TokNPX(t, n, p, x) == [t |-> t, n |-> n, p |-> p, x |-> x]

\* b.writes / b.printf on the buffer named buf of funk k.
Emit(k, buf, tok) == [k EXCEPT ![buf] = Append(@, tok)]
Fail(k, msg) == [k EXCEPT !.err = msg]
Failed(k) == k.err # ""

(***************************************************************************)
(* cmd/wuffs-c/internal/cgen: limits.                                      *)
(***************************************************************************)
\* const maxCoroSuspPoint = 0xFFFFFFFF
maxCoroSuspPoint == U32(65535, 65535)
\* Limits declared outside the files modelled here.
maxTemp == 10000
MaxExprDepth == 255
MaxBodyDepth == 255

errMightActuallySuspend == "internal: might actually suspend"
errNoSuchBuiltin == "internal: no such built-in"

\* The limits of io_bind, declared outside the files modelled here.
maxIOBinds == 100
maxIOBindInFields == 100
\* jumpTarget's limit on the number of loops of a function.
maxJumpTargets == 1000000
\* funk.jumpTargets, a map from loops to numbers: of holds the loops the
\* model names, earlier is the number of loops that were registered before
\* them (and hold the numbers 0..earlier-1).
NoJumpTargets == [earlier |-> 0, of |-> <<>>]

(***************************************************************************)
(* type funk: the state of the function being emitted.  err is the error   *)
(* the current emission call is returning, "" for nil.                     *)
(***************************************************************************)
NewFunk(n, start) ==
  [ bHeader |-> <<>>, bBodyResume |-> <<>>, bBody |-> <<>>,
    bBodySuspend |-> <<>>, bFooter |-> <<>>,
    astFunc |-> n, jumpTargets |-> NoJumpTargets, coroSuspPoint |-> start,
    ioBinds |-> 0, tempW |-> 0, tempR |-> 0,
    public |-> n.public, suspendible |-> n.suspendible,
    usesScratch |-> FALSE, hasGotoOK |-> FALSE, shortReads |-> <<>>,
    err |-> "" ]

(***************************************************************************)
(* Sequencing.  Then(k, F) is F applied to the funk k unless k holds an    *)
(* error, which is then returned: if err := ...; err != nil { return err }.*)
(* Bind(v, F) is F applied to the value v.  Both compute their first       *)
(* argument once.                                                          *)
(***************************************************************************)
Bind(v, F(_)) == CHOOSE y \in { F(x) : x \in {v} } : TRUE
Then(k, F(_)) == CHOOSE y \in { IF Failed(x) THEN x ELSE F(x) : x \in {k} } : TRUE

(***************************************************************************)
(* statement.go: suspension points and calls that may suspend.             *)
(***************************************************************************)
\* The mutant of writeCoroSuspPoint: the counter is printed before it is
\* incremented.
writeCoroSuspPointStale(k, buf, maybeSuspend) ==
  LET c == U32Inc(k.coroSuspPoint)
      k1 == [k EXCEPT !.coroSuspPoint = c]
  IN  IF c = maxCoroSuspPoint
      THEN Fail(k1, "too many coroutine suspension points required")
      ELSE Emit(k1, buf,
             TokP(IF maybeSuspend THEN "SUSPENSION_POINT_MAYBE_SUSPEND"
                  ELSE "SUSPENSION_POINT", k.coroSuspPoint))

writeCoroSuspPoint(k, buf, maybeSuspend) ==
  LET c == U32Inc(k.coroSuspPoint)
      k1 == [k EXCEPT !.coroSuspPoint = c]
  IN  IF c = maxCoroSuspPoint
      THEN Fail(k1, "too many coroutine suspension points required")
      ELSE Emit(k1, buf,
             TokP(IF maybeSuspend THEN "SUSPENSION_POINT_MAYBE_SUSPEND"
                  ELSE "SUSPENSION_POINT", c))

\* The mutant of mightActuallySuspend: ProvenNotToSuspend is not consulted.
RECURSIVE mightActuallySuspendIgnoringProof(_, _)
mightActuallySuspendIgnoringProof(n, depth) ==
  IF depth > MaxExprDepth THEN "expression recursion depth too large"
  ELSE IF ~CallSuspendible(n)
  THEN LET RECURSIVE Scan(_)
           Scan(i) ==
             IF i > Len(n.subs) THEN ""
             ELSE Bind(mightActuallySuspendIgnoringProof(n.subs[i], depth + 1),
                       LAMBDA e : IF e # "" THEN e ELSE Scan(i + 1))
       IN  Scan(1)
  ELSE errMightActuallySuspend

\* "" is nil; errMightActuallySuspend is the absence of ProvenNotToSuspend.
RECURSIVE mightActuallySuspend(_, _)
mightActuallySuspend(n, depth) ==
  IF depth > MaxExprDepth THEN "expression recursion depth too large"
  ELSE IF ~CallSuspendible(n)
  THEN LET RECURSIVE Scan(_)
           Scan(i) ==
             IF i > Len(n.subs) THEN ""
             ELSE Bind(mightActuallySuspend(n.subs[i], depth + 1),
                       LAMBDA e : IF e # "" THEN e ELSE Scan(i + 1))
       IN  Scan(1)
  ELSE IF ProvenNotToSuspend(n) THEN ""
  ELSE errMightActuallySuspend

\* var.go, outside the files modelled here: the step that flushes, and the
\* step that reloads, the derived I/O cursors around the call n.
writeSaveExprDerivedVars(k, buf, n) == Emit(k, buf, TokX("save_derived_vars", n.name))
writeLoadExprDerivedVars(k, buf, n) == Emit(k, buf, TokX("load_derived_vars", n.name))

\* expr.go, outside the files modelled here: the text of the call itself.
writeExprUserDefinedCall(k, buf, n) == Emit(k, buf, TokX("call", n.name))

writeReadUXX(k, buf, n, name, size, endianness) ==
  IF (size % 8 # 0) \/ (size < 16) \/ (size > 64)
  THEN Fail(k, "internal error: bad writeReadUXX size")
  ELSE IF endianness # "be" /\ endianness # "le"
  THEN Fail(k, "internal error: bad writeReadUXX endianness")
  ELSE IF k.tempW > maxTemp - 1
  THEN Fail(k, "too many temporary variables required")
  ELSE
    LET temp0 == k.tempW
        temp1 == k.tempW + 1
        k1 == [k EXCEPT !.tempW = @ + 2, !.tempR = @ + 1, !.usesScratch = TRUE]
        k2 == Emit(k1, buf, TokN("decl_temp", temp1))
        k3 == Emit(k2, buf, TokNX("if_available", size \div 8, "src"))
        k4 == Emit(k3, buf, TokNPX("temp=load_" \o endianness, temp1, U32(0, size), "src"))
        k5 == Emit(k4, buf, TokNX("advance", size \div 8, "src"))
        k6 == Emit(Emit(k5, buf, Tok("else")), buf, Tok("scratch=0"))
        Rest(k7) ==
          LET k8 == Emit(Emit(k7, buf, Tok("while_true")), buf,
                         TokX("if_at_bound_goto_short_read", name))
              k9 == [k8 EXCEPT !.shortReads = Append(@, name)]
              k10 == Emit(k9, buf, TokNX("scratch_accumulate_" \o endianness, temp0, name))
              k11 == Emit(k10, buf, TokN("if_temp0_is", size - 8))
              k12 == Emit(k11, buf,
                          IF endianness = "be"
                          THEN TokNPX("temp=scratch_be", temp1, U32(0, 64 - size), "")
                          ELSE TokN("temp=scratch_le", temp1))
              k13 == Emit(Emit(k12, buf, Tok("break")), buf,
                          TokN("temp0+=8_" \o endianness, temp0))
          IN  Emit(k13, buf, Tok("end_read"))
    IN  Then(writeCoroSuspPoint(k6, buf, FALSE), Rest)

\* builtin.go, outside the files modelled here: read_u32le on in.src is
\* expanded by writeReadUXX; a user-defined call is no built-in.
writeBuiltinCallSuspendibles(k, buf, n, depth) ==
  IF n.builtin = "read_u32le" THEN writeReadUXX(k, buf, n, "src", 32, "le")
  ELSE Fail(k, errNoSuchBuiltin)

\* The mutant of writeCallSuspendibles: the temporary of a try is numbered
\* after tempW is incremented.
RECURSIVE writeCallSuspendiblesTempAfter(_, _, _, _)
writeCallSuspendiblesTempAfter(k, buf, n, depth) ==
  IF depth > MaxExprDepth THEN Fail(k, "expression recursion depth too large")
  ELSE IF ~CallSuspendible(n)
  THEN LET RECURSIVE Each(_, _)
           Each(kk, i) ==
             IF i > Len(n.subs) THEN kk
             ELSE Then(writeCallSuspendiblesTempAfter(kk, buf, n.subs[i], depth + 1),
                       LAMBDA x : Each(x, i + 1))
       IN  Each(k, 1)
  ELSE
    LET k1 == writeSaveExprDerivedVars(k, buf, n)
        User ==
          IF IsTry(n) /\ k1.tempW > maxTemp
          THEN Fail(k1, "too many temporary variables required")
          ELSE
            LET k2 == IF IsTry(n)
                      THEN Emit([k1 EXCEPT !.tempW = @ + 1], buf,
                                TokN("temp=", k1.tempW + 1))
                      ELSE Emit(k1, buf, Tok("status="))
                k3 == writeExprUserDefinedCall(k2, buf, n)
                k4 == writeLoadExprDerivedVars(k3, buf, n)
            IN  IF ~IsTry(n) THEN Emit(k4, buf, Tok("if_status_goto_suspend"))
                ELSE k4
    IN  Bind(writeBuiltinCallSuspendibles(k1, buf, n, depth + 1),
             LAMBDA r : IF r.err # errNoSuchBuiltin THEN r ELSE User)

\* The mutant of writeCallSuspendibles: a call that is not a try branches to
\* suspend before the derived variables are reloaded.
RECURSIVE writeCallSuspendiblesNoReload(_, _, _, _)
writeCallSuspendiblesNoReload(k, buf, n, depth) ==
  IF depth > MaxExprDepth THEN Fail(k, "expression recursion depth too large")
  ELSE IF ~CallSuspendible(n)
  THEN LET RECURSIVE Each(_, _)
           Each(kk, i) ==
             IF i > Len(n.subs) THEN kk
             ELSE Then(writeCallSuspendiblesNoReload(kk, buf, n.subs[i], depth + 1),
                       LAMBDA x : Each(x, i + 1))
       IN  Each(k, 1)
  ELSE
    LET k1 == writeSaveExprDerivedVars(k, buf, n)
        User ==
          IF IsTry(n) /\ k1.tempW > maxTemp
          THEN Fail(k1, "too many temporary variables required")
          ELSE IF IsTry(n)
          THEN LET k2 == Emit([k1 EXCEPT !.tempW = @ + 1], buf, TokN("temp=", k1.tempW))
               IN  writeLoadExprDerivedVars(writeExprUserDefinedCall(k2, buf, n), buf, n)
          ELSE Emit(writeExprUserDefinedCall(Emit(k1, buf, Tok("status=")), buf, n),
                    buf, Tok("if_status_goto_suspend"))
    IN  Bind(writeBuiltinCallSuspendibles(k1, buf, n, depth + 1),
             LAMBDA r : IF r.err # errNoSuchBuiltin THEN r ELSE User)

\* The evaluation order for suspendible calls is LHS, MHS, RHS, Args and
\* finally the node itself.
RECURSIVE writeCallSuspendibles(_, _, _, _)
writeCallSuspendibles(k, buf, n, depth) ==
  IF depth > MaxExprDepth THEN Fail(k, "expression recursion depth too large")
  ELSE IF ~CallSuspendible(n)
  THEN LET RECURSIVE Each(_, _)
           Each(kk, i) ==
             IF i > Len(n.subs) THEN kk
             ELSE Then(writeCallSuspendibles(kk, buf, n.subs[i], depth + 1),
                       LAMBDA x : Each(x, i + 1))
       IN  Each(k, 1)
  ELSE
    LET k1 == writeSaveExprDerivedVars(k, buf, n)
        \* The call is no built-in.
        User ==
          IF IsTry(n) /\ k1.tempW > maxTemp
          THEN Fail(k1, "too many temporary variables required")
          ELSE
            LET k2 == IF IsTry(n)
                      THEN Emit([k1 EXCEPT !.tempW = @ + 1], buf, TokN("temp=", k1.tempW))
                      ELSE Emit(k1, buf, Tok("status="))
                k3 == writeExprUserDefinedCall(k2, buf, n)
                k4 == writeLoadExprDerivedVars(k3, buf, n)
            IN  IF ~IsTry(n) THEN Emit(k4, buf, Tok("if_status_goto_suspend"))
                ELSE k4
    IN  Bind(writeBuiltinCallSuspendibles(k1, buf, n, depth + 1),
             LAMBDA r : IF r.err # errNoSuchBuiltin THEN r ELSE User)

writeSuspendibles(k, buf, n, depth) ==
  IF ~Suspendible(n) THEN k
  ELSE
    Bind(mightActuallySuspend(n, depth),
         LAMBDA err :
           IF err # "" /\ err # errMightActuallySuspend THEN Fail(k, err)
           ELSE Then(IF err # "" /\ ~IsTry(n) THEN writeCoroSuspPoint(k, buf, FALSE)
                     ELSE k,
                     LAMBDA k1 : writeCallSuspendibles(k1, buf, n, depth)))

(***************************************************************************)
(* Statements.  A statement is a record: k is its ast.Kind; e its          *)
(* expression (the right-hand side, the initial value, the condition) and  *)
(* hasE whether it has one; kw the keyword of a return statement and val   *)
(* the operator of the returned expression; body, els and elif the bodies  *)
(* and the else-if of an if.                                               *)
(***************************************************************************)
Stmt(k, e, hasE, kw, val, body, els, elif) ==
  [k |-> k, e |-> e, hasE |-> hasE, kw |-> kw, val |-> val,
   body |-> body, els |-> els, elif |-> elif]

ExprStmt(e) == Stmt("expr", e, TRUE, "", "", <<>>, <<>>, <<>>)
\* x = e
AssignStmt(e) == Stmt("assign", e, TRUE, "=", "", <<>>, <<>>, <<>>)
\* var x T = e, and var x T
VarStmt(e) == Stmt("var", e, TRUE, "", "", <<>>, <<>>, <<>>)
VarStmtNoValue == Stmt("var", Var, FALSE, "", "", <<>>, <<>>, <<>>)
AssertStmt == Stmt("assert", Var, FALSE, "", "", <<>>, <<>>, <<>>)
\* return, return error "..", return status "..", return x, yield x
RetStmt(kw, val) == Stmt("ret", Var, val # "nil", kw, val, <<>>, <<>>, <<>>)
IfStmt(cond, body, els, elif) == Stmt("if", cond, TRUE, "", "", body, els, elif)

RetStmts ==
  { RetStmt("return", v) : v \in {"nil", "error", "status", "other"} }
    \cup { RetStmt("yield", "suspension") }

IfStmts ==
  { IfStmt(Var, b, <<>>, <<>>) : b \in {<<>>, <<RetStmt("yield", "suspension")>>} }
    \cup { IfStmt(Call("f", TRUE, FALSE), <<>>, b, <<>>) :
             b \in {<<>>, <<ExprStmt(Call("g", FALSE, FALSE))>>} }
    \cup { IfStmt(Var, <<>>, <<>>, <<IfStmt(c, <<>>, <<>>, <<>>)>>) :
             c \in {Call("f", TRUE, FALSE), ReadU32LE} }

\* The statements of a function body.
Stmts ==
  { ExprStmt(e) : e \in (Atoms \ {Var}) \cup {CallWithArg} }
    \cup { AssignStmt(e) : e \in {Var, Call("f", TRUE, FALSE), Call("f", TRUE, TRUE),
                                   ReadU32LE} \cup OpExprs }
    \cup { VarStmt(e) : e \in {Call("f", TRUE, FALSE), ReadU32LE} }
    \cup { VarStmtNoValue, AssertStmt }
    \cup RetStmts \cup IfStmts

(***************************************************************************)
(* expr.go, outside the files modelled here: the text of an expression.    *)
(* Under replaceCallSuspendibles a call that may suspend is replaced by    *)
(* the next unread temporary, t<tempR>.                                    *)
(***************************************************************************)
RECURSIVE writeExpr(_, _, _, _)
writeExpr(k, buf, n, rp) ==
  IF rp = "replaceCallSuspendibles" /\ CallSuspendible(n)
  THEN IF k.tempR >= k.tempW
       THEN Fail(k, "internal error: temporary variable count out of sync")
       ELSE Emit([k EXCEPT !.tempR = @ + 1], buf, TokN("temp", k.tempR))
  ELSE IF n.subs = <<>> THEN Emit(k, buf, TokX("operand", n.name))
  ELSE LET RECURSIVE Each(_, _)
           Each(kk, i) ==
             IF i > Len(n.subs) THEN kk
             ELSE Then(writeExpr(kk, buf, n.subs[i], rp), LAMBDA x : Each(x, i + 1))
       IN  Each(Emit(k, buf, TokX("operator", n.name)), 1)

(***************************************************************************)
(* statement.go: statement lowering.                                       *)
(***************************************************************************)
\* The assignments of the model have the operator =.
writeStatementAssign(k, buf, n, depth) ==
  Then(writeSuspendibles(k, buf, Var, depth), LAMBDA k1 :
  Then(writeSuspendibles(k1, buf, n.e, depth), LAMBDA k2 :
  Then(writeExpr(k2, buf, Var, "replaceCallSuspendibles"), LAMBDA k3 :
  Then(writeExpr(Emit(k3, buf, TokX("operator", n.kw)), buf, n.e,
                 "replaceCallSuspendibles"), LAMBDA k4 :
  Emit(k4, buf, Tok(";"))))))

writeStatementExpr(k, buf, n, depth) ==
  Then(writeSuspendibles(k, buf, n.e, depth), LAMBDA k1 :
    IF CallSuspendible(n.e) THEN k1
    ELSE Then(writeExpr(k1, buf, n.e, "replaceCallSuspendibles"), LAMBDA k2 :
         Emit(k2, buf, Tok(";"))))

\* The locals of the model are not arrays.
writeStatementVar(k, buf, n, depth) ==
  Then(IF n.hasE THEN writeSuspendibles(k, buf, n.e, depth) ELSE k, LAMBDA k1 :
  Then(IF n.hasE
       THEN writeExpr(Emit(k1, buf, TokX("local=", "x")), buf, n.e,
                      "replaceCallSuspendibles")
       ELSE Emit(Emit(k1, buf, TokX("local=", "x")), buf, Tok("0")), LAMBDA k2 :
  Emit(k2, buf, Tok(";"))))

\* len(k.jumpTargets)
LenJumpTargets(k) == k.jumpTargets.earlier + Cardinality(DOMAIN k.jumpTargets.of)

\* The mutant of jumpTarget: the limit is compared before the lookup.
jumpTargetLimitFirst(k, n) ==
  IF LenJumpTargets(k) = maxJumpTargets
  THEN [k |-> Fail(k, "too many jump targets"), jt |-> 0]
  ELSE IF n \in DOMAIN k.jumpTargets.of THEN [k |-> k, jt |-> k.jumpTargets.of[n]]
  ELSE [k |-> [k EXCEPT !.jumpTargets.of =
                 [x \in DOMAIN @ \cup {n} |->
                   IF x = n THEN LenJumpTargets(k) ELSE @[x]]],
        jt |-> LenJumpTargets(k)]

\* func (k *funk) jumpTarget(n a.Loop) (uint32, error): the funk after the
\* call (with the error, if any) and the number returned.
jumpTarget(k, n) ==
  IF n \in DOMAIN k.jumpTargets.of THEN [k |-> k, jt |-> k.jumpTargets.of[n]]
  ELSE IF LenJumpTargets(k) = maxJumpTargets
  THEN [k |-> Fail(k, "too many jump targets"), jt |-> 0]
  ELSE [k |-> [k EXCEPT !.jumpTargets.of =
                 [x \in DOMAIN @ \cup {n} |->
                   IF x = n THEN LenJumpTargets(k) ELSE @[x]]],
        jt |-> LenJumpTargets(k)]

\* A jump: break or continue of the loop at address loop.
JumpStmt(kw, loop) == [k |-> "jump", kw |-> kw, loop |-> loop]

writeStatementJump(k, buf, n, depth) ==
  Bind(jumpTarget(k, n.loop), LAMBDA r :
    IF Failed(r.k) THEN r.k
    ELSE Emit(r.k, buf, TokNX("goto label", r.jt,
                              IF n.kw = "break" THEN "break" ELSE "continue")))

\* The mutant of writeStatementRet: return error leaves a function that may
\* suspend with a return statement of its own.
writeStatementRetDirect(k, buf, n, depth) ==
  IF k.suspendible
  THEN LET k1 == Emit(k, buf, TokX("status=", IF n.hasE THEN n.val ELSE "STATUS_OK"))
           retKeyword == IF n.hasE THEN n.val ELSE "status"
       IN  IF n.kw = "yield" THEN writeCoroSuspPoint(k1, buf, TRUE)
           ELSE IF retKeyword = "error" THEN Emit(k1, buf, TokX("return", "status"))
           ELSE Emit([k1 EXCEPT !.hasGotoOK = TRUE], buf, TokX("goto", "ok"))
  ELSE Emit(k, buf, TokX("return", IF n.hasE THEN n.val ELSE ""))

\* The mutant of writeStatementRet: a returned status that is no error
\* literal goes to ok unchecked.
writeStatementRetUnchecked(k, buf, n, depth) ==
  IF k.suspendible
  THEN LET k1 == Emit(k, buf, TokX("status=", IF n.hasE THEN n.val ELSE "STATUS_OK"))
           retKeyword == IF n.hasE THEN n.val ELSE "status"
       IN  IF n.kw = "yield" THEN writeCoroSuspPoint(k1, buf, TRUE)
           ELSE IF retKeyword = "error" THEN Emit(k1, buf, TokX("goto", "exit"))
           ELSE Emit([k1 EXCEPT !.hasGotoOK = TRUE], buf, TokX("goto", "ok"))
  ELSE LET k1 == Emit(k, buf, TokX("return", IF n.hasE THEN n.val ELSE ""))
       IN  IF (k.astFunc.out = 0) = n.hasE
           THEN Fail(k1, "return expression incompatible with return type")
           ELSE Emit(k1, buf, Tok(";"))

\* The returned expressions of the model hold no call.
writeStatementRet(k, buf, n, depth) ==
  IF k.suspendible
  THEN LET k1 == Emit(k, buf, TokX("status=", IF n.hasE THEN n.val ELSE "STATUS_OK"))
           retKeyword == IF n.hasE THEN n.val ELSE "status"
       IN  IF n.kw = "yield" THEN writeCoroSuspPoint(k1, buf, TRUE)
           ELSE IF retKeyword = "error" THEN Emit(k1, buf, TokX("goto", "exit"))
           ELSE IF retKeyword = "status"
           THEN Emit([k1 EXCEPT !.hasGotoOK = TRUE], buf, TokX("goto", "ok"))
           ELSE Emit(Emit([k1 EXCEPT !.hasGotoOK = TRUE], buf,
                          Tok("if_status_zero_goto_ok_else_no_suspension")),
                     buf, TokX("goto", "exit"))
  ELSE LET k1 == Emit(k, buf, TokX("return", IF n.hasE THEN n.val ELSE ""))
       IN  IF k.astFunc.out = 0
           THEN IF n.hasE
                THEN Fail(k1, "return expression incompatible with empty return type")
                ELSE Emit(k1, buf, Tok(";"))
           ELSE IF ~n.hasE
           THEN Fail(k1, "empty return expression incompatible with non-empty return type")
           ELSE Emit(k1, buf, Tok(";"))

RECURSIVE writeStatement(_, _, _, _)
RECURSIVE writeStatementIf(_, _, _, _)

\* for _, o := range body { writeStatement(b, o, depth) }, stopping at the
\* first error.
RECURSIVE writeStatements(_, _, _, _)
writeStatements(k, buf, body, depth) ==
  IF body = <<>> THEN k
  ELSE Then(writeStatement(k, buf, Head(body), depth),
            LAMBDA x : writeStatements(x, buf, Tail(body), depth))

\* A while loop at address loop; hasContinue and hasBreak are the flags
\* n.HasContinue() and n.HasBreak().
WhileNode(loop, cond, body, hasContinue, hasBreak) ==
  [k |-> "while", loop |-> loop, e |-> cond, body |-> body,
   hasContinue |-> hasContinue, hasBreak |-> hasBreak]

\* The mutant of writeStatementWhile: both labels are always written.
writeStatementWhileAlwaysLabels(k, buf, n, depth) ==
  Bind(jumpTarget(k, n.loop), LAMBDA r :
  Then(Then(r.k, LAMBDA k0 : Emit(k0, buf, TokNX("label", r.jt, "continue"))),
       LAMBDA k1 :
  Then(writeExpr(Emit(k1, buf, Tok("while")), buf, n.e, "replaceCallSuspendibles"),
       LAMBDA k2 :
  Then(writeStatements(Emit(k2, buf, Tok("{")), buf, n.body, depth), LAMBDA k3 :
  Emit(Emit(k3, buf, Tok("}")), buf, TokNX("label", r.jt, "break"))))))

\* The condition is written to a buffer of its own and printed between
\* "while (" and ") {".
writeStatementWhile(k, buf, n, depth) ==
  Then(IF n.hasContinue
       THEN Bind(jumpTarget(k, n.loop), LAMBDA r :
              Then(r.k, LAMBDA k0 : Emit(k0, buf, TokNX("label", r.jt, "continue"))))
       ELSE k, LAMBDA k1 :
  Then(writeExpr(Emit(k1, buf, Tok("while")), buf, n.e, "replaceCallSuspendibles"),
       LAMBDA k2 :
  Then(writeStatements(Emit(k2, buf, Tok("{")), buf, n.body, depth), LAMBDA k3 :
  Bind(Emit(k3, buf, Tok("}")), LAMBDA k4 :
    IF n.hasBreak
    THEN Bind(jumpTarget(k4, n.loop), LAMBDA r :
           Then(r.k, LAMBDA k5 : Emit(k5, buf, TokNX("label", r.jt, "break"))))
    ELSE k4))))

\* An in-field of an io_bind: its name, whether it is a plain local variable
\* (e.Operator() == 0) and not an argument in.name, and whether it is an
\* io_writer.
IOField(name, local, writer) == [name |-> name, local |-> local, writer |-> writer]
IOBindNode(inFields, body) == [k |-> "iobind", inFields |-> inFields, body |-> body]
\* vPrefix or aPrefix, and the name
PrefixedName(f) == (IF f.local THEN "v_" ELSE "a_") \o f.name

\* for i := 0; i < len(inFields); i++ { ... }
RECURSIVE writeIOBindSaves(_, _, _, _, _)
writeIOBindSaves(k, buf, inFields, i, ioBindNum) ==
  IF i > Len(inFields) THEN k
  ELSE Bind(Emit(k, buf, TokNX(IF inFields[i].writer THEN "save io_writer"
                                                       ELSE "save io_reader",
                               ioBindNum, PrefixedName(inFields[i]))), LAMBDA k1 :
       writeIOBindSaves(
         IF inFields[i].local
         THEN Emit(Emit(k1, buf, TokNX("save ioptr", ioBindNum,
                                        PrefixedName(inFields[i]))),
                   buf, TokNX("save iobounds1", ioBindNum, PrefixedName(inFields[i])))
         ELSE k1, buf, inFields, i + 1, ioBindNum))

\* for i := len(inFields) - 1; i >= 0; i-- { ... }
RECURSIVE writeIOBindRestores(_, _, _, _, _)
writeIOBindRestores(k, buf, inFields, i, ioBindNum) ==
  IF i < 1 THEN k
  ELSE Bind(Emit(k, buf, TokNX("restore", ioBindNum, PrefixedName(inFields[i]))),
            LAMBDA k1 :
       writeIOBindRestores(
         IF inFields[i].local
         THEN Emit(Emit(k1, buf, TokNX("restore ioptr", ioBindNum,
                                        PrefixedName(inFields[i]))),
                   buf, TokNX("restore iobounds1", ioBindNum,
                              PrefixedName(inFields[i])))
         ELSE k1, buf, inFields, i - 1, ioBindNum))

\* The mutant of writeStatementIOBind: the counter is the nesting depth, it
\* is decremented when the block is closed.
writeStatementIOBindDepth(k, buf, n, depth) ==
  IF k.ioBinds > maxIOBinds \/ Len(n.inFields) > maxIOBindInFields
  THEN Fail(k, "too many temporary variables required")
  ELSE Bind(k.ioBinds, LAMBDA ioBindNum :
       Then(writeStatements(
              writeIOBindSaves(Emit([k EXCEPT !.ioBinds = @ + 1], buf, Tok("{")),
                               buf, n.inFields, 1, ioBindNum),
              buf, n.body, depth), LAMBDA k1 :
       Emit(writeIOBindRestores([k1 EXCEPT !.ioBinds = @ - 1], buf, n.inFields,
                                Len(n.inFields), ioBindNum),
            buf, Tok("}"))))

writeStatementIOBind(k, buf, n, depth) ==
  IF k.ioBinds > maxIOBinds \/ Len(n.inFields) > maxIOBindInFields
  THEN Fail(k, "too many temporary variables required")
  ELSE Bind(k.ioBinds, LAMBDA ioBindNum :
       Then(writeStatements(
              writeIOBindSaves(Emit([k EXCEPT !.ioBinds = @ + 1], buf, Tok("{")),
                               buf, n.inFields, 1, ioBindNum),
              buf, n.body, depth), LAMBDA k1 :
       Emit(writeIOBindRestores(k1, buf, n.inFields, Len(n.inFields), ioBindNum),
            buf, Tok("}"))))

\* x.SmallPowerOf2Value() of lang/token.
SmallPowerOf2Value(x) ==
  CASE x = ID1 -> 1
    [] x = ID2 -> 2
    [] x = ID4 -> 4
    [] x = ID8 -> 8
    [] x = ID16 -> 16
    [] x = ID32 -> 32
    [] x = ID64 -> 64
    [] x = ID128 -> 128
    [] x = ID256 -> 256
    [] OTHER -> 0

\* An iterate at address loop: the names of its variables, the IDs of its
\* length and unroll, its body, and its else_iterate (<<>> is nil, else a
\* sequence holding the next iterate of the chain).
IterateNode(loop, variables, length, unroll, body, elseIterate) ==
  [k |-> "iterate", loop |-> loop, variables |-> variables, length |-> length,
   unroll |-> unroll, body |-> body, elseIterate |-> elseIterate]

\* for i := 0; i < unroll; i++ { body; v.ptr += length }
RECURSIVE writeIterateCopies(_, _, _, _, _, _, _)
writeIterateCopies(k, buf, name, body, depth, length, i) ==
  IF i = 0 THEN k
  ELSE Then(writeStatements(k, buf, body, depth), LAMBDA k1 :
       writeIterateCopies(Emit(k1, buf, TokNX("v.ptr+=", length, name)),
                          buf, name, body, depth, length, i - 1))

\* The mutant of writeIterateRound: the end pointer is the end of the slice,
\* not rounded down to a multiple of length * unroll.
writeIterateRoundToEnd(k, buf, name, body, round, depth, length, unroll) ==
  Bind(Emit(Emit(Emit(Emit(k, buf, TokNX("v.len=", length, name)),
                           buf, TokNX("i_end=", round, name)),
                      buf, TokNX("i_slice.ptr+(i_slice.len/m)*m", 1, name)),
            buf, TokNX("while v.ptr<i_end", round, name)), LAMBDA k1 :
  Then(writeIterateCopies(k1, buf, name, body, depth, length, unroll), LAMBDA k2 :
  Emit(k2, buf, Tok("}"))))

writeIterateRound(k, buf, name, body, round, depth, length, unroll) ==
  Bind(Emit(Emit(Emit(Emit(k, buf, TokNX("v.len=", length, name)),
                           buf, TokNX("i_end=", round, name)),
                      buf, TokNX("i_slice.ptr+(i_slice.len/m)*m", length * unroll, name)),
            buf, TokNX("while v.ptr<i_end", round, name)), LAMBDA k1 :
  Then(writeIterateCopies(k1, buf, name, body, depth, length, unroll), LAMBDA k2 :
  Emit(k2, buf, Tok("}"))))

\* for ; n != nil; n = n.ElseIterate() { for { round; if unroll == 1 break } }
RECURSIVE writeIterateChain(_, _, _, _, _, _, _)
writeIterateChain(k, buf, name, n, round, depth, second) ==
  LET length == SmallPowerOf2Value(n.length)
      unroll == IF second THEN 1 ELSE SmallPowerOf2Value(n.unroll)
  IN  Then(writeIterateRound(k, buf, name, n.body, round, depth, length, unroll),
           LAMBDA k1 :
             IF unroll # 1
             THEN writeIterateChain(k1, buf, name, n, round + 1, depth, TRUE)
             ELSE IF n.elseIterate = <<>> THEN k1
             ELSE writeIterateChain(k1, buf, name, n.elseIterate[1], round + 1, depth,
                                    FALSE))

\* The mutant of writeStatementIterate: an unrolled round is not followed by
\* a round of unroll 1.
RECURSIVE writeIterateChainUnrolledOnly(_, _, _, _, _, _, _)
writeIterateChainUnrolledOnly(k, buf, name, n, round, depth, second) ==
  Then(writeIterateRound(k, buf, name, n.body, round, depth,
                         SmallPowerOf2Value(n.length), SmallPowerOf2Value(n.unroll)),
       LAMBDA k1 :
         IF n.elseIterate = <<>> THEN k1
         ELSE writeIterateChainUnrolledOnly(k1, buf, name, n.elseIterate[1], round + 1,
                                            depth, FALSE))

writeStatementIterateUnrolledOnly(k, buf, n, depth) ==
  IF Len(n.variables) = 0 THEN k
  ELSE IF Len(n.variables) # 1 THEN Fail(k, "TODO: iterate over more than one variable")
  ELSE Bind(n.variables[1], LAMBDA name :
       Then(writeExpr(Emit(Emit(k, buf, Tok("{")), buf, TokX("i_slice=", name)),
                      buf, Var, "replaceCallSuspendibles"), LAMBDA k1 :
       Then(writeIterateChainUnrolledOnly(Emit(k1, buf, TokX("v=i_slice", name)),
                                          buf, name, n, 0, depth, FALSE),
            LAMBDA k2 : Emit(k2, buf, Tok("}")))))

\* The value iterated over is the variable of the model.
writeStatementIterate(k, buf, n, depth) ==
  IF Len(n.variables) = 0 THEN k
  ELSE IF Len(n.variables) # 1 THEN Fail(k, "TODO: iterate over more than one variable")
  ELSE Bind(n.variables[1], LAMBDA name :
       Then(writeExpr(Emit(Emit(k, buf, Tok("{")), buf, TokX("i_slice=", name)),
                      buf, Var, "replaceCallSuspendibles"), LAMBDA k1 :
       Then(writeIterateChain(Emit(k1, buf, TokX("v=i_slice", name)),
                              buf, name, n, 0, depth, FALSE),
            LAMBDA k2 : Emit(k2, buf, Tok("}")))))

writeStatementIf(k, buf, n0, depth) ==
  LET maxCloseCurly == 1000
      \* for ; nCloseCurly > 0; nCloseCurly-- { b.writes("}\n") }
      RECURSIVE Close(_, _)
      Close(kk, c) == IF c = 0 THEN kk ELSE Close(Emit(kk, buf, Tok("}")), c - 1)
      RECURSIVE Loop(_, _, _, _)
      \* One turn of the for loop, for the if or else-if n.
      Loop(kk, n, first, nCloseCurly) ==
        LET hoist == Suspendible(n.e) /\ ~first
            k1 == IF hoist THEN Emit(kk, buf, Tok("{")) ELSE kk
            nc == IF hoist THEN nCloseCurly + 1 ELSE nCloseCurly
        IN  IF hoist /\ nCloseCurly = maxCloseCurly
            THEN Fail(k1, "too many nested if's")
            ELSE
              Then(IF Suspendible(n.e) THEN writeSuspendibles(k1, buf, n.e, depth)
                   ELSE k1, LAMBDA k2 :
              Then(writeExpr(Emit(k2, buf, Tok("if")), buf, n.e,
                             "replaceCallSuspendibles"), LAMBDA k3 :
              Then(writeStatements(Emit(k3, buf, Tok("then{")), buf, n.body, depth),
                   LAMBDA k4 :
                IF n.els # <<>>
                THEN Then(writeStatements(Emit(k4, buf, Tok("}else{")), buf, n.els, depth),
                          LAMBDA k5 : Close(k5, nc))
                ELSE IF n.elif = <<>> THEN Close(k4, nc)
                ELSE Loop(Emit(k4, buf, Tok("}else")), n.elif[1], FALSE, nc))))
  IN  Loop(k, n0, TRUE, 1)

writeStatement(k, buf, n, depth) ==
  IF depth > MaxBodyDepth THEN Fail(k, "body recursion depth too large")
  ELSE IF n.k = "assert" THEN k
  ELSE
    LET mightIntroduceTemporaries ==
          CASE n.k = "assign" -> Suspendible(Var) \/ Suspendible(n.e)
            [] n.k = "var" -> n.hasE /\ Suspendible(n.e)
            [] OTHER -> FALSE
        k1 == IF mightIntroduceTemporaries THEN Emit(k, buf, Tok("{")) ELSE k
        k2 == CASE n.k = "assign" -> writeStatementAssign(k1, buf, n, depth + 1)
                [] n.k = "expr" -> writeStatementExpr(k1, buf, n, depth + 1)
                [] n.k = "iobind" -> writeStatementIOBind(k1, buf, n, depth + 1)
                [] n.k = "iterate" -> writeStatementIterate(k1, buf, n, depth + 1)
                [] n.k = "if" -> writeStatementIf(k1, buf, n, depth + 1)
                [] n.k = "jump" -> writeStatementJump(k1, buf, n, depth + 1)
                [] n.k = "ret" -> writeStatementRet(k1, buf, n, depth + 1)
                [] n.k = "var" -> writeStatementVar(k1, buf, n, depth + 1)
                [] n.k = "while" -> writeStatementWhile(k1, buf, n, depth + 1)
                [] OTHER -> Fail(k1, "unrecognized ast.Kind for writeStatement")
    IN  \* defer b.writes("}\n")
        IF mightIntroduceTemporaries THEN Emit(k2, buf, Tok("}")) ELSE k2

(***************************************************************************)
(* Functions.  A function has a name, the flags public and suspendible,    *)
(* receiver (whether it is a method), its in fields (name and typ, "ptr"   *)
(* for a pointer-typed argument) and the number of its out fields.         *)
(***************************************************************************)
\* An argument of a type that is not refined.
Field(name, typ) ==
  [name |-> name, typ |-> typ, refined |-> FALSE, qid |-> <<0, 0>>,
   bounds |-> <<"nil", "nil">>]
\* An argument of the refined type qid[lo..hi]: typ is "ptr" for a pointer,
\* and a bound is the decimal of its ConstValue, "nil" when the bound is
\* absent or not constant.
RefinedField(name, typ, qid, lo, hi) ==
  [name |-> name, typ |-> typ, refined |-> TRUE, qid |-> qid, bounds |-> <<lo, hi>>]
Func(name, public, suspendible, receiver, inFields, outFields) ==
  [name |-> name, public |-> public, suspendible |-> suspendible,
   receiver |-> receiver, in |-> inFields, out |-> outFields]

FuncKinds ==
  { Func("decode", TRUE, TRUE, TRUE, <<Field("dst", "ptr"), Field("src", "io")>>, 0),
    Func("step", FALSE, TRUE, TRUE, <<Field("src", "io")>>, 0),
    Func("width", TRUE, FALSE, TRUE, <<>>, 1),
    Func("size", TRUE, FALSE, TRUE, <<>>, 2),
    Func("reset", TRUE, FALSE, TRUE, <<>>, 0) }

(***************************************************************************)
(* func.go: the five emission phases of one function.                      *)
(***************************************************************************)
\* var numTypeBounds = [...][2]*big.Int{ t.IDI8: ..., t.IDBool: {zero, one} }:
\* an array as long as its largest key asks, nil where no key is given.
numTypeBounds ==
  [x \in 0..IDU64 |->
     CASE x = IDI8 -> <<"-128", "127">>
       [] x = IDI16 -> <<"-32768", "32767">>
       [] x = IDI32 -> <<"-2147483648", "2147483647">>
       [] x = IDI64 -> <<"-9223372036854775808", "9223372036854775807">>
       [] x = IDU8 -> <<"0", "255">>
       [] x = IDU16 -> <<"0", "65535">>
       [] x = IDU32 -> <<"0", "4294967295">>
       [] x = IDU64 -> <<"0", "18446744073709551615">>
       [] x = IDBool -> <<"0", "1">>
       [] OTHER -> <<"nil", "nil">>]

\* The checks of one argument o: "!" a_name for a pointer, a_name "<" lo and
\* a_name ">" hi for the constant bounds of a refinement that are not the
\* bounds of the base type.
FieldChecks(o) ==
  IF o.typ # "ptr" /\ ~o.refined THEN <<>>
  ELSE IF o.typ = "ptr" THEN <<[op |-> "!", a |-> o.name, b |-> ""]>>
  ELSE
    LET ntb == IF o.qid[1] = IDBase /\ o.qid[2] \in DOMAIN numTypeBounds
               THEN numTypeBounds[o.qid[2]] ELSE <<"nil", "nil">>
        Bound(i) == IF o.bounds[i] # "nil" /\ ntb[i] # "nil" /\ o.bounds[i] = ntb[i]
                    THEN "nil" ELSE o.bounds[i]
        Check(i, op) == IF Bound(i) # "nil"
                        THEN <<[op |-> op, a |-> o.name, b |-> Bound(i)]>> ELSE <<>>
    IN  Check(1, "<") \o Check(2, ">")

\* checks = append(checks, ...) over the in fields, in their order.
ArgChecks(n) ==
  LET RECURSIVE Collect(_)
      Collect(i) ==
        IF i > Len(n.in) THEN <<>>
        ELSE FieldChecks(n.in[i]) \o Collect(i + 1)
  IN  Collect(1)

\* The text of the checks: each is written as !a_name, a_name < lo or
\* a_name > hi, and they are joined by ||.
CheckText(c) ==
  IF c.op = "!" THEN "!a_" \o c.a ELSE "a_" \o c.a \o " " \o c.op \o " " \o c.b
RECURSIVE JoinChecks(_)
JoinChecks(checks) ==
  IF Len(checks) = 0 THEN ""
  ELSE IF Len(checks) = 1 THEN CheckText(checks[1])
  ELSE CheckText(checks[1]) \o " || " \o JoinChecks(Tail(checks))

writeFuncImplArgChecks(k, buf, n) ==
  LET checks == ArgChecks(n)
  IN  IF Len(checks) = 0 THEN k
      ELSE
        LET k1 == Emit(k, buf, TokNX("if_bad_argument{", Len(checks), JoinChecks(checks)))
            k2 == IF k.suspendible
                  THEN Emit(IF k.public
                            THEN Emit(k1, buf, TokX("self.status=", "ERROR_BAD_ARGUMENT"))
                            ELSE k1,
                            buf, TokX("return", "ERROR_BAD_ARGUMENT"))
                  ELSE IF n.receiver
                  THEN Emit(Emit(k1, buf, TokX("self.status=", "ERROR_BAD_ARGUMENT")),
                            buf, TokX("return", ""))
                  ELSE Emit(k1, buf, TokX("return", ""))
        IN  Emit(k2, buf, Tok("}"))

\* The return of the receiver checks: by the function's return type.
HeaderReturn(k, buf, x) ==
  LET outFields == k.astFunc.out
  IN  IF k.suspendible THEN Emit(k, buf, TokX("return", x))
      ELSE IF outFields = 0 THEN Emit(k, buf, TokX("return", ""))
      ELSE IF outFields = 1 THEN Emit(k, buf, TokX("return", "0"))
      ELSE Fail(k, "TODO: handle structured return types")

\* for _, o := range In().Fields() { writeLoadDerivedVar / writeSaveDerivedVar }
RECURSIVE writeDerivedVars(_, _, _, _)
writeDerivedVars(k, buf, t, fields) ==
  IF fields = <<>> THEN k
  ELSE writeDerivedVars(Emit(k, buf, TokX(t, Head(fields).name)), buf, t, Tail(fields))

writeFuncImplHeader(k) ==
  LET buf == "bHeader"
      \* Check the previous status and the "self" arg.
      Guards ==
        IF k.public /\ k.astFunc.receiver
        THEN Then(HeaderReturn(Emit(k, buf, Tok("if_not_self{")), buf,
                               "ERROR_BAD_RECEIVER"), LAMBDA h1 :
             Then(HeaderReturn(
                    Emit(Emit(Emit(h1, buf, Tok("}")), buf,
                              TokX("if_bad_magic_self.status=",
                                   "ERROR_CHECK_WUFFS_VERSION_NOT_CALLED")),
                         buf, Tok("if_self.status_negative{")),
                    buf, "self.status"), LAMBDA h3 :
             Emit(h3, buf, Tok("}"))))
        ELSE k
  IN  Then(Guards, LAMBDA k1 :
      Then(IF k1.public THEN writeFuncImplArgChecks(k1, buf, k1.astFunc) ELSE k1,
           LAMBDA k2 :
        LET k3 == IF k2.suspendible
                  THEN Emit(k2, buf, TokX("decl_status=", "STATUS_OK")) ELSE k2
            \* writeVars: the declarations of the local variables.
            k4 == Emit(k3, buf, Tok("decl_locals"))
        IN  IF k2.suspendible
            THEN writeDerivedVars(k4, buf, "load_derived_var", k2.astFunc.in)
            ELSE k4))

writeFuncImplBodyResume(k) ==
  LET buf == "bBodyResume"
  IN  IF ~k.suspendible THEN k
      ELSE
        LET k1 == Emit(k, buf, TokX("coro_susp_point=self.coro_susp_point", k.astFunc.name))
            k2 == Emit(Emit(k1, buf, Tok("if_coro_susp_point{")), buf, Tok("resume_locals"))
            k3 == Emit(Emit(k2, buf, Tok("}else{")), buf, Tok("initialize_locals"))
            k4 == Emit(k3, buf, Tok("}"))
        IN  Emit(Emit(k4, buf, Tok("switch_coro_susp_point{")), buf,
                 TokP("SUSPENSION_POINT_0", Z32))

\* One turn of the loop of writeFuncImplBody: the statement o of the body.
writeFuncImplBody(k, o) == writeStatement(k, "bBody", o, 0)

writeFuncImplBodySuspend(k) ==
  LET buf == "bBodySuspend"
  IN  IF ~k.suspendible THEN k
      ELSE
        LET k1 == Emit(Emit(k, buf, TokX("goto", "ok")), buf, TokX("label", "ok"))
            k2 == Emit(k1, buf, TokX("self.coro_susp_point=0", k.astFunc.name))
            k3 == Emit(Emit(k2, buf, TokX("goto", "exit")), buf, Tok("}switch"))
            k4 == Emit(Emit(k3, buf, TokX("goto", "suspend")), buf, TokX("label", "suspend"))
            k5 == Emit(k4, buf, TokX("self.coro_susp_point=coro_susp_point", k.astFunc.name))
        IN  Emit(k5, buf, Tok("suspend_locals"))

\* The names of srs, each once, in the order of their first occurrence.
RECURSIVE Distinct(_, _)
Distinct(srs, seen) ==
  IF srs = <<>> THEN <<>>
  ELSE IF Head(srs) \in seen THEN Distinct(Tail(srs), seen)
  ELSE <<Head(srs)>> \o Distinct(Tail(srs), seen \cup {Head(srs)})

\* The mutant of writeFuncImplFooter: the status is not stored into the
\* receiver.
writeFuncImplFooterNoStore(k) ==
  LET buf == "bFooter"
  IN  IF ~k.suspendible THEN k
      ELSE
        LET k1 == Emit(Emit(k, buf, TokX("goto", "exit")), buf, TokX("label", "exit"))
            k2 == writeDerivedVars(k1, buf, "save_derived_var", k.astFunc.in)
        IN  Emit(k2, buf, TokX("return", "status"))

writeFuncImplFooter(k) ==
  LET buf == "bFooter"
  IN  IF ~k.suspendible THEN k
      ELSE
        LET k1 == Emit(Emit(k, buf, TokX("goto", "exit")), buf, TokX("label", "exit"))
            k2 == writeDerivedVars(k1, buf, "save_derived_var", k.astFunc.in)
            k3 == IF k.public THEN Emit(k2, buf, TokX("self.status=", "status")) ELSE k2
            k4 == Emit(k3, buf, TokX("return", "status"))
            srs == Distinct(k.shortReads, {})
            RECURSIVE Stubs(_, _)
            Stubs(kk, i) ==
              IF i > Len(srs) THEN kk
              ELSE Stubs(Emit(kk, buf, TokX("short_read_stub", srs[i])), i + 1)
        IN  Stubs(k4, 1)

\* The text writeFuncImpl appends for the function recorded as funk k.
writeFuncImplText(k) ==
  <<TokX("signature", k.astFunc.name), Tok("{")>>
    \o k.bHeader
    \o (IF k.suspendible /\ k.coroSuspPoint # Z32 THEN k.bBodyResume ELSE <<>>)
    \o k.bBody
    \o (IF k.suspendible /\ k.coroSuspPoint # Z32 THEN k.bBodySuspend
        ELSE IF k.hasGotoOK THEN <<TokX("goto", "ok"), TokX("label", "ok")>>
        ELSE <<>>)
    \o k.bFooter
    \o <<Tok("}")>>

(***************************************************************************)
(* func.go: gatherFuncImpl and writeFuncImpl as steps of the generator.    *)
(* gatherFuncImpl runs from GatherBegin (header, body-resume) through one  *)
(* GatherBodyStatement per statement of the body to GatherEnd (body-       *)
(* suspend, footer, the check of the temporaries); a phase that fails ends *)
(* it with the error in gErr.                                              *)
(***************************************************************************)
NoFunc == Func("", FALSE, FALSE, FALSE, <<>>, 0)
NoFunks == [q \in {} |-> NewFunk(NoFunc, Z32)]

GenInit ==
  /\ currFunk = NewFunk(NoFunc, Z32)
  /\ funks = NoFunks
  /\ genPc = "idle"
  /\ gErr = ""
  /\ astBody = <<>>
  /\ out = <<>>

GatherBegin ==
  /\ genPc = "idle"
  /\ \E n \in FuncKinds :
       \E k \in { Then(writeFuncImplHeader(NewFunk(n, Z32)), writeFuncImplBodyResume) } :
         /\ currFunk' = [k EXCEPT !.err = ""]
         /\ gErr' = k.err
         /\ genPc' = IF Failed(k) THEN "done" ELSE "body"
  /\ UNCHANGED <<funks, astBody, out>>

GatherBodyStatement ==
  /\ genPc = "body"
  /\ Len(astBody) < MaxBody
  /\ \E o \in Stmts :
       \E k \in { writeFuncImplBody(currFunk, o) } :
         /\ currFunk' = [k EXCEPT !.err = ""]
         /\ gErr' = k.err
         /\ genPc' = IF Failed(k) THEN "done" ELSE "body"
         /\ astBody' = Append(astBody, o)
  /\ UNCHANGED <<funks, out>>

\* The mutant of GatherEndRecord: the funk is recorded whatever the counts.
GatherEndRecordUnchecked(k) ==
  [err |-> k.err,
   funks |-> IF Failed(k) THEN funks ELSE (k.astFunc.name :> k) @@ funks]

\* The end of gatherFuncImpl for the funk k the five phases left.
GatherEndRecord(k) ==
  IF Failed(k) THEN [err |-> k.err, funks |-> funks]
  ELSE IF k.tempW # k.tempR
  THEN [err |-> "internal error: temporary variable count out of sync", funks |-> funks]
  ELSE [err |-> "", funks |-> (k.astFunc.name :> k) @@ funks]

GatherEnd ==
  /\ genPc = "body"
  /\ \E k \in { Then(writeFuncImplBodySuspend(currFunk), writeFuncImplFooter) } :
       \E r \in { GatherEndRecord(k) } :
         /\ currFunk' = [k EXCEPT !.err = ""]
         /\ gErr' = r.err
         /\ funks' = r.funks
  /\ genPc' = "done"
  /\ UNCHANGED <<astBody, out>>

\* generate.go calls writeFuncImpl for a function once gatherFuncImpl has
\* returned nil for it.
WriteFuncImpl ==
  /\ genPc = "done"
  /\ gErr = ""
  /\ \E name \in DOMAIN funks : out' = out \o writeFuncImplText(funks[name])
  /\ genPc' = "written"
  /\ UNCHANGED <<currFunk, funks, gErr, astBody>>

(***************************************************************************)
(* writeCoroSuspPoint late in a long function: the counter has reached     *)
(* coroStart, and bBody holds the points written since.                    *)
(***************************************************************************)
CoroStarts == {Z32} \cup { U32Minus(maxCoroSuspPoint, d) : d \in 1..NearCap }

CoroIdle ==
  /\ coroStart = Z32
  /\ coroFunk = NewFunk(NoFunc, Z32)

CoroInit ==
  /\ coroStart \in CoroStarts
  /\ coroFunk = NewFunk(NoFunc, coroStart)

WriteCoroSuspPoint ==
  /\ ~Failed(coroFunk)
  /\ Len(coroFunk.bBody) < MaxPoints
  /\ \E maybeSuspend \in BOOLEAN :
       coroFunk' = writeCoroSuspPoint(coroFunk, "bBody", maybeSuspend)
  /\ UNCHANGED coroStart

(***************************************************************************)
(* func.go: gatherFuncImpl as one call, for the function n with the body   *)
(* given; the result is the funk, its err the error returned.              *)
(***************************************************************************)
gatherFuncImpl(n, body) ==
  Then(writeFuncImplHeader(NewFunk(n, Z32)), LAMBDA k1 :
  Then(writeFuncImplBodyResume(k1), LAMBDA k2 :
  Then(writeStatements(k2, "bBody", body, 0), LAMBDA k3 :
  Then(writeFuncImplBodySuspend(k3), LAMBDA k4 :
  Then(writeFuncImplFooter(k4), LAMBDA k5 :
    IF k5.tempW # k5.tempR
    THEN Fail(k5, "internal error: temporary variable count out of sync")
    ELSE k5)))))

(***************************************************************************)
(* The generated code at run time: three public methods of one struct, as  *)
(* the generator writes them, called on one receiver.  The C constructs    *)
(* and the status values are those of the base library, which is outside   *)
(* the files modelled here.                                                *)
(***************************************************************************)
DecodeFunc ==
  Func("decode", TRUE, TRUE, TRUE, <<Field("dst", "ptr"), Field("src", "io")>>, 0)
EncodeFunc == Func("encode", TRUE, TRUE, TRUE, <<Field("dst", "io")>>, 0)
ResetFunc == Func("reset", TRUE, FALSE, TRUE, <<Field("opt", "ptr")>>, 0)

\* decode yields once and then fails; encode and reset return at once.
DecodeFunk ==
  gatherFuncImpl(DecodeFunc, <<RetStmt("yield", "suspension"), RetStmt("return", "error")>>)
EncodeFunk == gatherFuncImpl(EncodeFunc, <<RetStmt("return", "nil")>>)
ResetFunk == gatherFuncImpl(ResetFunc, <<RetStmt("return", "nil")>>)

\* The value of the status or operand named x in frame st.
StatusValue(st, x) ==
  CASE x = "status" -> st.status
    [] x = "self.status" -> st.self.status
    [] x = "ERROR_BAD_ARGUMENT" -> -1
    [] x = "ERROR_BAD_RECEIVER" -> -2
    [] x = "ERROR_CHECK_WUFFS_VERSION_NOT_CALLED" -> -3
    [] x = "error" -> -4
    [] x = "suspension" -> 1
    [] OTHER -> 0

\* The first position after i of a token of text equal to tok.
RECURSIVE Find(_, _, _)
Find(text, tok, i) ==
  IF i > Len(text) THEN i
  ELSE IF text[i] = tok THEN i
  ELSE Find(text, tok, i + 1)

\* The frame after the token at st.pc of text is executed.
ExecToken(text, st, argsOK, selfOK) ==
  LET tok == text[st.pc]
      next == [st EXCEPT !.pc = @ + 1]
      skip == [st EXCEPT !.pc = Find(text, Tok("}"), st.pc) + 1]
  IN  CASE tok.t = "if_not_self{" -> IF ~selfOK THEN next ELSE skip
        [] tok.t = "if_self.status_negative{" ->
             IF st.self.status < 0 THEN next ELSE skip
        [] tok.t = "if_bad_argument{" -> IF ~argsOK THEN next ELSE skip
        [] tok.t = "if_bad_magic_self.status=" ->
             IF st.self.magic THEN next
             ELSE [next EXCEPT !.self.status = StatusValue(st, tok.x)]
        [] tok.t = "self.status=" ->
             [next EXCEPT !.self.status = StatusValue(st, tok.x)]
        [] tok.t = "return" ->
             [st EXCEPT !.ret = StatusValue(st, tok.x), !.done = TRUE]
        [] tok.t = "decl_status=" -> [next EXCEPT !.status = StatusValue(st, tok.x)]
        [] tok.t = "status=" -> [next EXCEPT !.status = StatusValue(st, tok.x)]
        [] tok.t = "coro_susp_point=self.coro_susp_point" ->
             [next EXCEPT !.coro = st.self.coro[tok.x]]
        [] tok.t = "switch_coro_susp_point{" ->
             IF st.coro = 0 THEN next
             ELSE [st EXCEPT !.pc =
                     Find(text, TokP("SUSPENSION_POINT_MAYBE_SUSPEND", U32(0, st.coro)),
                          st.pc) + 1]
        [] tok.t = "SUSPENSION_POINT_MAYBE_SUSPEND" ->
             [st EXCEPT !.coro = tok.p[2],
                        !.pc = Find(text, TokX("label", "suspend"), st.pc)]
        [] tok.t = "goto" -> [st EXCEPT !.pc = Find(text, TokX("label", tok.x), 1)]
        [] tok.t = "self.coro_susp_point=0" -> [next EXCEPT !.self.coro[tok.x] = 0]
        [] tok.t = "self.coro_susp_point=coro_susp_point" ->
             [next EXCEPT !.self.coro[tok.x] = st.coro]
        [] OTHER -> next

\* The frame when the call returns; bodyRan tells that the call went on
\* past the header, which ends at headerEnd.
RECURSIVE Exec(_, _, _, _, _)
Exec(text, headerEnd, st, argsOK, selfOK) ==
  IF st.done \/ st.pc > Len(text) THEN st
  ELSE Bind(ExecToken(text, [st EXCEPT !.bodyRan = @ \/ st.pc > headerEnd],
                      argsOK, selfOK),
            LAMBDA x : Exec(text, headerEnd, x, argsOK, selfOK))

\* The call of the function recorded as funk k on receiver s.
CallResult(k, s, argsOK, selfOK) ==
  LET Run(text) ==
        Exec(text, 2 + Len(k.bHeader),
             [pc |-> 1, self |-> s, status |-> 0, coro |-> 0, ret |-> 0,
              done |-> FALSE, bodyRan |-> FALSE],
             argsOK, selfOK)
      Result(st) ==
        [self |-> IF selfOK THEN st.self ELSE s,
         call |-> [name |-> k.astFunc.name, suspendible |-> k.suspendible,
                   ret |-> st.ret, bodyRan |-> st.bodyRan, selfOK |-> selfOK]]
  IN  Bind(Bind(writeFuncImplText(k), Run), Result)

NoCall ==
  [name |-> "", suspendible |-> FALSE, ret |-> 0, bodyRan |-> FALSE, selfOK |-> TRUE]

RunIdle ==
  /\ self = [magic |-> TRUE, status |-> 0, coro |-> [q \in {"decode", "encode"} |-> 0]]
  /\ lastCall = NoCall
  /\ nCalls = 0

\* The receiver is zeroed memory; check_wuffs_version may have been called.
RunInit ==
  /\ self \in [magic : BOOLEAN, status : {0}, coro : {[q \in {"decode", "encode"} |-> 0]}]
  /\ lastCall = NoCall
  /\ nCalls = 0

CallPublic(funk) ==
  /\ nCalls < MaxCalls
  /\ \E k \in {funk}, argsOK \in BOOLEAN, selfOK \in BOOLEAN :
       \E r \in { CallResult(k, self, argsOK, selfOK) } :
         self' = r.self /\ lastCall' = r.call
  /\ nCalls' = nCalls + 1

CallDecode == CallPublic(DecodeFunk)
CallEncode == CallPublic(EncodeFunk)
CallReset == CallPublic(ResetFunk)

(***************************************************************************)
(* lang/token: the Map that interns names.  A new Map holds no name of its *)
(* own; the built-in names resolve through builtInsByName.                 *)
(***************************************************************************)
\* The mutant of builtInsByName: init() has not filled the map.
builtInsByNameEmpty == <<>>

\* func init() { for i, name := range builtInsByID { if name != "" {
\* builtInsByName[name] = ID(i) } } }: a later index overwrites an earlier.
builtInsByName ==
  [name \in {builtInsByID[i] : i \in DOMAIN builtInsByID} \ {""} |->
    CHOOSE i \in DOMAIN builtInsByID :
      /\ builtInsByID[i] = name
      /\ \A j \in DOMAIN builtInsByID : builtInsByID[j] = name => j <= i]

\* The names a program interns that are not built in: two identifiers, a
\* number and a string literal.
UserNames == {"foo", "_bar", "42", "\"hi\""}
\* The names interned in the model: those, and some built-in ones.
InternNames == UserNames \cup {"if", "+=", "u32", "256", "~sat-"}

\* The first byte of a name of UserNames.
FirstByte(s) ==
  CASE s = "foo" -> "f" [] s = "_bar" -> "_" [] s = "42" -> "4" [] s = "\"hi\"" -> "\""
\* alpha and numeric classify a byte.
alpha(c) == c \in {"f", "_"}
numeric(c) == c \in {"4"}

\* m.Insert(name): the ID of name, and the Map after the call.
InsertID(byName, byID, name) ==
  IF name \in DOMAIN builtInsByName THEN builtInsByName[name]
  ELSE IF name \in DOMAIN byName THEN byName[name]
  ELSE nBuiltInIDs + Len(byID)
InsertByName(byName, byID, name) ==
  IF name \in DOMAIN builtInsByName \/ name \in DOMAIN byName THEN byName
  ELSE [n \in DOMAIN byName \cup {name} |->
         IF n = name THEN nBuiltInIDs + Len(byID) ELSE byName[n]]
InsertByID(byName, byID, name) ==
  IF name \in DOMAIN builtInsByName \/ name \in DOMAIN byName THEN byID
  ELSE Append(byID, name)

\* m.ByID(x): "" for an ID that was never issued.
ByID(byID, x) ==
  IF x < nBuiltInIDs THEN builtInsByID[x]
  ELSE IF x - nBuiltInIDs < Len(byID) THEN byID[x - nBuiltInIDs + 1]
  ELSE ""

\* x.IsLiteral(m) and x.IsIdent(m).
IsLiteral(byID, x) ==
  IF x < nBuiltInIDs THEN minBuiltInLiteral <= x /\ x <= maxBuiltInLiteral
  ELSE IF ByID(byID, x) # "" THEN ~alpha(FirstByte(ByID(byID, x)))
  ELSE FALSE
IsIdent(byID, x) ==
  IF x < nBuiltInIDs THEN minBuiltInIdent <= x /\ x <= maxBuiltInIdent
  ELSE IF ByID(byID, x) # "" THEN alpha(FirstByte(ByID(byID, x)))
  ELSE FALSE

\* The mutant of IsAssign: the upper limit of the range is not compared.
IsAssignNoUpper(x) == minAssign <= x
\* x.IsAssign(), x.IsXOp() and x.IsXBinaryOp().
IsAssign(x) == minAssign <= x /\ x <= maxAssign
IsXOp(x) == minXOp <= x /\ x <= maxXOp
IsXBinaryOp(x) == minXOp <= x /\ x <= maxXOp /\ binaryForms[x] # 0

\* The IDs that are classified: every built-in ID, every ID a Map of the
\* model can issue and the next one, and the largest integer TLC holds.
ClassifyIDs == (0..(nBuiltInIDs + MaxUser)) \cup {2147483647}
\* The IDs a caller asks about: the first and the last ID of every range,
\* one ID inside each, the IDs of a Map, and the largest integer.
QueriedIDs ==
  { IDInvalid, 1, IDSemicolon, minAssign - 1, minAssign, IDPlusEq, maxAssign,
    minAmbiguousOp, IDPlus, maxAmbiguousOp, minXOp, IDXBinaryPlus, maxXOp,
    minKeyword, IDIf, maxKeyword, minTypeModifier, IDPtr, maxTypeModifier,
    minBuiltInLiteral, ID256, maxBuiltInLiteral, maxBuiltInLiteral + 1,
    minBuiltInIdent - 1, minBuiltInIdent, IDU32, maxBuiltInIdent, 2147483647 }
    \cup (nBuiltInIDs..(nBuiltInIDs + MaxUser))

NoMapRes ==
  [kind |-> "none", x |-> 0, s |-> "", isAssign |-> FALSE, isXOp |-> FALSE,
   isLiteral |-> FALSE, isIdent |-> FALSE]

\* A new Map.
MapIdle == mapByName = <<>> /\ mapByID = <<>> /\ mapRes = NoMapRes
MapInit == MapIdle

\* id := m.Insert(name)
Insert ==
  \E name \in InternNames :
    /\ Len(InsertByID(mapByName, mapByID, name)) <= MaxUser
    /\ mapByName' = InsertByName(mapByName, mapByID, name)
    /\ mapByID' = InsertByID(mapByName, mapByID, name)
    /\ mapRes' = [NoMapRes EXCEPT !.kind = "insert", !.s = name,
                   !.x = InsertID(mapByName, mapByID, name)]

\* x.Str(m) and the classification of x.
Classify ==
  \E x \in QueriedIDs :
    /\ mapRes' = [kind |-> "classify", x |-> x, s |-> ByID(mapByID, x),
                  isAssign |-> IsAssign(x), isXOp |-> IsXOp(x),
                  isLiteral |-> IsLiteral(mapByID, x),
                  isIdent |-> IsIdent(mapByID, x)]
    /\ UNCHANGED <<mapByName, mapByID>>

(***************************************************************************)
(* lang/ast: Expr.Eq and TypeExpr.Eq.  A node is a record that carries the *)
(* address it is allocated at; the nil pointer is the node at address 0.   *)
(* ID0 is 0 or an operator, ID1 a literal or an identifier.                *)
(***************************************************************************)
Nil == [addr |-> 0]
NoConst == [has |-> FALSE, v |-> 0]
Const(v) == [has |-> TRUE, v |-> v]
Node(addr, flags, id0, id1, id2, lhs, mhs, rhs, list0, constValue) ==
  [addr |-> addr, flags |-> flags, id0 |-> id0, id1 |-> id1, id2 |-> id2,
   lhs |-> lhs, mhs |-> mhs, rhs |-> rhs, list0 |-> list0,
   constValue |-> constValue]

\* The flags of a node that Eq compares, and one that it does not.
flagsThatMatterForEq == {"impure", "suspendible", "call_impure", "call_suspendible"}
FlagsTypeChecked == "type_checked"

\* The IDs of the user's names x, y and f.
IDx == nBuiltInIDs
IDy == nBuiltInIDs + 1
IDf == nBuiltInIDs + 2

RECURSIVE ExprEq(_, _), TypeEq(_, _), ExprEqIgnoringID0(_, _),
          ExprEqNoConstValue(_, _)

\* The mutant of Eq that does not compare id0.
ExprEqIgnoringID0(n, o) ==
  IF n.addr = o.addr THEN TRUE
  ELSE IF n.addr = 0 \/ o.addr = 0 THEN FALSE
  ELSE IF n.constValue.has /\ o.constValue.has
    THEN n.constValue.v = o.constValue.v
  ELSE IF \/ n.flags \cap flagsThatMatterForEq # o.flags \cap flagsThatMatterForEq
          \/ n.id1 # o.id1 \/ n.id2 # o.id2 THEN FALSE
  ELSE IF ~ExprEqIgnoringID0(n.lhs, o.lhs) THEN FALSE
  ELSE IF ~ExprEqIgnoringID0(n.mhs, o.mhs) THEN FALSE
  ELSE IF n.id0 = IDXBinaryAs /\ o.id0 = IDXBinaryAs /\ ~TypeEq(n.rhs, o.rhs)
    THEN FALSE
  ELSE IF (n.id0 # IDXBinaryAs /\ o.id0 # IDXBinaryAs)
            /\ ~ExprEqIgnoringID0(n.rhs, o.rhs) THEN FALSE
  ELSE IF Len(n.list0) # Len(o.list0) THEN FALSE
  ELSE \A i \in 1..Len(n.list0) : ExprEqIgnoringID0(n.list0[i], o.list0[i])

\* The mutant of Eq without the comparison of constant values.
ExprEqNoConstValue(n, o) ==
  IF n.addr = o.addr THEN TRUE
  ELSE IF n.addr = 0 \/ o.addr = 0 THEN FALSE
  ELSE IF \/ n.flags \cap flagsThatMatterForEq # o.flags \cap flagsThatMatterForEq
          \/ n.id0 # o.id0 \/ n.id1 # o.id1 \/ n.id2 # o.id2 THEN FALSE
  ELSE IF ~ExprEqNoConstValue(n.lhs, o.lhs) THEN FALSE
  ELSE IF ~ExprEqNoConstValue(n.mhs, o.mhs) THEN FALSE
  ELSE IF n.id0 = IDXBinaryAs /\ ~TypeEq(n.rhs, o.rhs) THEN FALSE
  ELSE IF n.id0 # IDXBinaryAs /\ ~ExprEqNoConstValue(n.rhs, o.rhs) THEN FALSE
  ELSE IF Len(n.list0) # Len(o.list0) THEN FALSE
  ELSE \A i \in 1..Len(n.list0) : ExprEqNoConstValue(n.list0[i], o.list0[i])

\* func (n *Expr) Eq(o *Expr) bool
ExprEq(n, o) ==
  IF n.addr = o.addr THEN TRUE
  ELSE IF n.addr = 0 \/ o.addr = 0 THEN FALSE
  ELSE IF n.constValue.has /\ o.constValue.has
    THEN n.constValue.v = o.constValue.v
  ELSE IF \/ n.flags \cap flagsThatMatterForEq # o.flags \cap flagsThatMatterForEq
          \/ n.id0 # o.id0 \/ n.id1 # o.id1 \/ n.id2 # o.id2 THEN FALSE
  ELSE IF ~ExprEq(n.lhs, o.lhs) THEN FALSE
  ELSE IF ~ExprEq(n.mhs, o.mhs) THEN FALSE
  ELSE IF n.id0 = IDXBinaryAs /\ ~TypeEq(n.rhs, o.rhs) THEN FALSE
  ELSE IF n.id0 # IDXBinaryAs /\ ~ExprEq(n.rhs, o.rhs) THEN FALSE
  ELSE IF Len(n.list0) # Len(o.list0) THEN FALSE
  ELSE \A i \in 1..Len(n.list0) : ExprEq(n.list0[i], o.list0[i])

\* func (n *TypeExpr) Eq(o *TypeExpr) bool, that is n.eq(o, false): the loop
\* over the chain of inner types is the recursion on rhs.
TypeEq(n, o) ==
  IF n.addr = o.addr THEN TRUE
  ELSE IF n.addr = 0 \/ o.addr = 0 THEN FALSE
  ELSE IF n.id0 # o.id0 \/ n.id1 # o.id1 \/ n.id2 # o.id2 THEN FALSE
  ELSE IF ~ExprEq(n.lhs, o.lhs) \/ ~ExprEq(n.mhs, o.mhs) THEN FALSE
  ELSE IF n.rhs.addr = 0 /\ o.rhs.addr = 0 THEN TRUE
  ELSE TypeEq(n.rhs, o.rhs)

\* The mutant of eq: the bounds are skipped on array types too.
RECURSIVE TypeExprEqSkippingAll(_, _, _)
TypeExprEqSkippingAll(n, o, ignoreRefinements) ==
  IF n.addr = o.addr THEN TRUE
  ELSE IF n.addr = 0 \/ o.addr = 0 THEN FALSE
  ELSE IF n.id0 # o.id0 \/ n.id1 # o.id1 \/ n.id2 # o.id2 THEN FALSE
  ELSE IF ~ignoreRefinements /\ (~ExprEq(n.lhs, o.lhs) \/ ~ExprEq(n.mhs, o.mhs))
    THEN FALSE
  ELSE IF n.rhs.addr = 0 /\ o.rhs.addr = 0 THEN TRUE
  ELSE TypeExprEqSkippingAll(n.rhs, o.rhs, ignoreRefinements)

\* func (n *TypeExpr) eq(o *TypeExpr, ignoreRefinements bool) bool; an array
\* type is one whose id0 is IDArray.
RECURSIVE TypeExprEq(_, _, _)
TypeExprEq(n, o, ignoreRefinements) ==
  IF n.addr = o.addr THEN TRUE
  ELSE IF n.addr = 0 \/ o.addr = 0 THEN FALSE
  ELSE IF n.id0 # o.id0 \/ n.id1 # o.id1 \/ n.id2 # o.id2 THEN FALSE
  ELSE IF (n.id0 = IDArray \/ ~ignoreRefinements)
            /\ (~ExprEq(n.lhs, o.lhs) \/ ~ExprEq(n.mhs, o.mhs))
    THEN FALSE
  ELSE IF n.rhs.addr = 0 /\ o.rhs.addr = 0 THEN TRUE
  ELSE TypeExprEq(n.rhs, o.rhs, ignoreRefinements)

\* func (n *TypeExpr) EqIgnoringRefinements(o *TypeExpr) bool
EqIgnoringRefinements(n, o) == TypeExprEq(n, o, TRUE)

\* Nodes of a checked program.  Leaves: the identifiers x (twice), y and f,
\* the literals 1, 2 and 3.
Ident(addr, name) == Node(addr, {FlagsTypeChecked}, 0, name, 0, Nil, Nil, Nil, <<>>, NoConst)
Literal(addr, id, v) == Node(addr, {FlagsTypeChecked}, 0, id, 0, Nil, Nil, Nil, <<>>, Const(v))
Binary(addr, op, lhs, rhs, constValue) ==
  Node(addr, {FlagsTypeChecked}, op, 0, 0, lhs, Nil, rhs, <<>>, constValue)
TypeNode(addr, id0, name, lhs, mhs, rhs) ==
  [addr |-> addr, id0 |-> id0, id1 |-> IDBase, id2 |-> name,
   lhs |-> lhs, mhs |-> mhs, rhs |-> rhs]
CallNode(addr, flags, args) ==
  Node(addr, flags, IDOpenParen, 0, 0, Ident(addr + 1, IDf), Nil, Nil, args, NoConst)

ExprX == Ident(1, IDx)
ExprXAgain == Ident(2, IDx)
ExprY == Ident(3, IDy)
ExprXUnchecked == Node(4, {}, 0, IDx, 0, Nil, Nil, Nil, <<>>, NoConst)
Expr1 == Literal(5, ID1, 1)
Expr2 == Literal(6, ID2, 2)
Expr2Again == Literal(7, ID2, 2)
\* "3" is not a built-in literal: its ID is one of the Map.
Expr3 == Literal(8, nBuiltInIDs + 3, 3)

ExprNodes ==
  { ExprX, ExprXAgain, ExprY, ExprXUnchecked, Expr1, Expr2, Expr2Again, Expr3,
    \* 1 + 2 and 2 + 1, both folded to 3; 1 + 1, folded to 2; 2 - 1
    Binary(10, IDXBinaryPlus, Expr1, Expr2, Const(3)),
    Binary(11, IDXBinaryPlus, Expr2, Expr1, Const(3)),
    Binary(12, IDXBinaryPlus, Expr1, Literal(13, ID1, 1), Const(2)),
    Binary(14, IDXBinaryMinus, Expr2, Expr1, Const(1)),
    \* x + y twice, y + x, x - y, x + 2 twice, x + (1 + 1)
    Binary(20, IDXBinaryPlus, ExprX, ExprY, NoConst),
    Binary(21, IDXBinaryPlus, ExprXAgain, Ident(22, IDy), NoConst),
    Binary(23, IDXBinaryPlus, ExprY, ExprX, NoConst),
    Binary(24, IDXBinaryMinus, ExprX, ExprY, NoConst),
    Binary(25, IDXBinaryPlus, ExprX, Expr2, NoConst),
    Binary(26, IDXBinaryPlus, ExprXAgain, Expr2Again, NoConst),
    Binary(27, IDXBinaryPlus, ExprX,
           Binary(28, IDXBinaryPlus, Expr1, Literal(29, ID1, 1), Const(2)), NoConst),
    \* x as base.u32 twice, x as base.u8, x as array[2] base.u8,
    \* x as array[1 + 1] base.u8, x as array[3] base.u8
    Binary(30, IDXBinaryAs, ExprX, TypeNode(31, 0, IDU32, Nil, Nil, Nil), NoConst),
    Binary(32, IDXBinaryAs, ExprXAgain, TypeNode(33, 0, IDU32, Nil, Nil, Nil), NoConst),
    Binary(34, IDXBinaryAs, ExprX, TypeNode(35, 0, IDU8, Nil, Nil, Nil), NoConst),
    Binary(36, IDXBinaryAs, ExprX,
           TypeNode(37, IDArray, 0, Expr2, Nil, TypeNode(38, 0, IDU8, Nil, Nil, Nil)),
           NoConst),
    Binary(39, IDXBinaryAs, ExprX,
           TypeNode(40, IDArray, 0,
                    Binary(41, IDXBinaryPlus, Expr1, Literal(42, ID1, 1), Const(2)),
                    Nil, TypeNode(43, 0, IDU8, Nil, Nil, Nil)),
           NoConst),
    Binary(44, IDXBinaryAs, ExprX,
           TypeNode(45, IDArray, 0, Expr3, Nil, TypeNode(46, 0, IDU8, Nil, Nil, Nil)),
           NoConst),
    \* f(), f(x), f(x) again, f(y), f(x, y), f?(x), f!(x)
    CallNode(50, {FlagsTypeChecked}, <<>>),
    CallNode(52, {FlagsTypeChecked}, <<ExprX>>),
    CallNode(54, {}, <<ExprXAgain>>),
    CallNode(56, {FlagsTypeChecked}, <<ExprY>>),
    CallNode(58, {FlagsTypeChecked}, <<ExprX, ExprY>>),
    CallNode(60, {FlagsTypeChecked, "suspendible", "call_suspendible"}, <<ExprX>>),
    CallNode(62, {FlagsTypeChecked, "impure", "call_impure"}, <<ExprX>>),
    \* x[y], x[1:2], x[1:y], x[:2]
    Node(70, {FlagsTypeChecked}, IDOpenBracket, 0, 0, ExprX, Nil, ExprY, <<>>, NoConst),
    Node(71, {FlagsTypeChecked}, IDColon, 0, 0, ExprX, Expr1, Expr2, <<>>, NoConst),
    Node(72, {FlagsTypeChecked}, IDColon, 0, 0, ExprXAgain, Literal(73, ID1, 1),
         Expr2Again, <<>>, NoConst),
    Node(74, {FlagsTypeChecked}, IDColon, 0, 0, ExprX, Expr1, ExprY, <<>>, NoConst),
    Node(75, {FlagsTypeChecked}, IDColon, 0, 0, ExprX, Nil, Expr2, <<>>, NoConst),
    \* x.y and x.f, and y < 3
    Node(80, {FlagsTypeChecked}, IDDot, IDy, 0, ExprX, Nil, Nil, <<>>, NoConst),
    Node(81, {FlagsTypeChecked}, IDDot, IDf, 0, ExprX, Nil, Nil, <<>>, NoConst),
    Binary(82, IDXBinaryLessThan, ExprY, Expr3, NoConst) }

\* Types: base.u32, base.u32[1..2] twice, base.u32[1..3], base.u32[..2],
\* base.u8[1..2], ptr base.u32, ptr base.u32[1..2], ptr base.u32[1..3],
\* nptr base.u32, array[2] base.u8[1..2], array[2] base.u8[1..3],
\* array[3] base.u8[1..2], array[1 + 1] base.u8, and slice array[2] base.u8
\* and slice array[3] base.u8.
TypeNodes ==
  { TypeNode(100, 0, IDU32, Nil, Nil, Nil),
    TypeNode(101, 0, IDU32, Expr1, Expr2, Nil),
    TypeNode(102, 0, IDU32, Literal(103, ID1, 1), Expr2Again, Nil),
    TypeNode(104, 0, IDU32, Expr1, Expr3, Nil),
    TypeNode(105, 0, IDU32, Nil, Expr2, Nil),
    TypeNode(106, 0, IDU8, Expr1, Expr2, Nil),
    TypeNode(110, IDPtr, 0, Nil, Nil, TypeNode(111, 0, IDU32, Nil, Nil, Nil)),
    TypeNode(112, IDPtr, 0, Nil, Nil, TypeNode(113, 0, IDU32, Expr1, Expr2, Nil)),
    TypeNode(114, IDPtr, 0, Nil, Nil, TypeNode(115, 0, IDU32, Expr1, Expr3, Nil)),
    TypeNode(116, IDNptr, 0, Nil, Nil, TypeNode(117, 0, IDU32, Nil, Nil, Nil)),
    TypeNode(120, IDArray, 0, Expr2, Nil, TypeNode(121, 0, IDU8, Expr1, Expr2, Nil)),
    TypeNode(122, IDArray, 0, Expr2, Nil, TypeNode(123, 0, IDU8, Expr1, Expr3, Nil)),
    TypeNode(124, IDArray, 0, Expr3, Nil, TypeNode(125, 0, IDU8, Expr1, Expr2, Nil)),
    TypeNode(126, IDArray, 0,
             Binary(127, IDXBinaryPlus, Expr1, Literal(128, ID1, 1), Const(2)),
             Nil, TypeNode(129, 0, IDU8, Nil, Nil, Nil)),
    TypeNode(130, IDSlice, 0, Nil, Nil,
             TypeNode(131, IDArray, 0, Expr2, Nil,
                      TypeNode(132, 0, IDU8, Expr1, Expr2, Nil))),
    TypeNode(133, IDSlice, 0, Nil, Nil,
             TypeNode(134, IDArray, 0, Expr3, Nil,
                      TypeNode(135, 0, IDU8, Expr1, Expr3, Nil))) }

\* x as T for each of the types, at the address after the type's last.
AsNodes == { Binary(typ.addr + 40, IDXBinaryAs, ExprX, typ, NoConst) : typ \in TypeNodes }

\* The type of the conversion e, nil when e is.
AsType(e) == IF e.addr = 0 THEN Nil ELSE e.rhs
IsAs(e) == IF e.addr = 0 THEN TRUE ELSE e.id0 = IDXBinaryAs

\* The checker holds two expressions, conversions among them.
SymInit ==
  /\ eqN \in ExprNodes \cup AsNodes \cup {Nil}
  /\ eqO \in ExprNodes \cup AsNodes \cup {Nil}
  /\ eqRes = "none"

\* The checker calls Eq and EqIgnoringRefinements on the types of two
\* conversions.
CallTypeEq ==
  /\ eqRes = "none"
  /\ IsAs(eqN) /\ IsAs(eqO)
  /\ eqRes' = (IF TypeEq(AsType(eqN), AsType(eqO)) THEN "type: true" ELSE "type: false")
  /\ UNCHANGED <<eqN, eqO>>

CallEqIgnoringRefinements ==
  /\ eqRes = "none"
  /\ IsAs(eqN) /\ IsAs(eqO)
  /\ eqRes' = (IF EqIgnoringRefinements(AsType(eqN), AsType(eqO))
               THEN "ignoring: true" ELSE "ignoring: false")
  /\ UNCHANGED <<eqN, eqO>>

\* The arguments of a call of Eq: the nodes, and the nil pointer.
EqArgs == ExprNodes \cup {Nil}

EqIdle == eqN = Nil /\ eqO = Nil /\ eqRes = "none"
\* The checker holds two expressions to compare.
EqInit == eqN \in EqArgs /\ eqO \in EqArgs /\ eqRes = "none"

\* The checker calls n.Eq(o); eqRes is "none" before the call.
CallEq ==
  /\ eqRes = "none"
  /\ eqRes' = (IF ExprEq(eqN, eqO) THEN "true" ELSE "false")
  /\ UNCHANGED <<eqN, eqO>>

(***************************************************************************)
(* std/gif: decoder.decode_config and decoder.decode_frame, as the public  *)
(* suspendible functions the generator makes of them: the header returns   *)
(* the stored status when it is an error and checks the pointer argument,  *)
(* the body resumes at the stored suspension point, the footer stores the  *)
(* status.  What the private decode_* functions read from src is an input: *)
(* each of them completes, suspends on a short read, or fails.             *)
(***************************************************************************)
errInvalidCallSequence == "invalid call sequence"
errBadArgument == "ERROR_BAD_ARGUMENT"
suspShortRead == "short read"
suspEndOfData == "end of data"
GifErrors == {errInvalidCallSequence, errBadArgument, "bad header", "bad block"}

\* What a call of a private suspendible function does: "eod" is the return
\* of decode_up_to_id_part1 that has set end_of_data.
SubOutcomes == {"ok", suspShortRead, "bad header"}
BlockOutcomes == {"ok", "eod", suspShortRead, "bad block"}

NewDecoder ==
  [call_sequence |-> 0, end_of_data |-> FALSE, status |-> "ok",
   decode_config |-> 0, decode_frame |-> 0]

\* A call stops at suspension point point of function f with status st: a
\* suspension stores the point, an error leaves it.
Stop(g, f, point, st) ==
  IF st \in GifErrors THEN [g EXCEPT !.status = st]
  ELSE [g EXCEPT !.status = st, ![f] = point]

\* The mutant of decode_config: call_sequence is not looked at.
decode_configUnchecked(g, o) ==
  IF g.decode_config <= 1 /\ o[1] # "ok" THEN Stop(g, "decode_config", 1, o[1])
  ELSE IF g.decode_config <= 2 /\ o[2] # "ok" THEN Stop(g, "decode_config", 2, o[2])
  ELSE IF o[3] \notin {"ok", "eod"} THEN Stop(g, "decode_config", 3, o[3])
  ELSE [g EXCEPT !.end_of_data = @ \/ o[3] = "eod", !.call_sequence = 1,
                 !.status = "ok", !.decode_config = 0]

\* The body of decode_config, entered at the stored suspension point:
\* o[1], o[2], o[3] are the outcomes of decode_header, decode_lsd and
\* decode_up_to_id_part1.
decode_config(g, o) ==
  IF g.decode_config = 0 /\ g.call_sequence >= 1
    THEN Stop(g, "decode_config", 0, errInvalidCallSequence)
  ELSE IF g.decode_config <= 1 /\ o[1] # "ok" THEN Stop(g, "decode_config", 1, o[1])
  ELSE IF g.decode_config <= 2 /\ o[2] # "ok" THEN Stop(g, "decode_config", 2, o[2])
  ELSE IF o[3] \notin {"ok", "eod"} THEN Stop(g, "decode_config", 3, o[3])
  ELSE [g EXCEPT !.end_of_data = @ \/ o[3] = "eod", !.call_sequence = 1,
                 !.status = "ok", !.decode_config = 0]

\* decode_frame from "if this.end_of_data" on: the yield of point 2 is in a
\* loop that never ends; o is the outcome of decode_id_part1, point 3.
decode_frameTail(g, o) ==
  IF g.end_of_data THEN Stop(g, "decode_frame", 2, suspEndOfData)
  ELSE IF o # "ok" THEN Stop(g, "decode_frame", 3, o)
  ELSE [g EXCEPT !.status = "ok", !.decode_frame = 0]

\* The body of decode_frame, entered at the stored suspension point: o[1]
\* is the outcome of decode_up_to_id_part1 (point 1), o[2] of decode_id_part1.
decode_frame(g, o) ==
  IF g.decode_frame = 0 /\ g.call_sequence = 0
    THEN Stop(g, "decode_frame", 0, errInvalidCallSequence)
  ELSE IF g.decode_frame = 0 /\ ~g.end_of_data /\ g.call_sequence = 1
    THEN decode_frameTail([g EXCEPT !.call_sequence = 2], o[2])
  ELSE IF (g.decode_frame = 0 /\ ~g.end_of_data) \/ g.decode_frame = 1
    THEN IF o[1] \notin {"ok", "eod"} THEN Stop(g, "decode_frame", 1, o[1])
         ELSE decode_frameTail([g EXCEPT !.end_of_data = @ \/ o[1] = "eod"], o[2])
  ELSE IF g.decode_frame = 2 THEN Stop(g, "decode_frame", 2, suspEndOfData)
  ELSE IF g.decode_frame = 3
    THEN IF o[2] # "ok" THEN Stop(g, "decode_frame", 3, o[2])
         ELSE [g EXCEPT !.status = "ok", !.decode_frame = 0]
  ELSE decode_frameTail(g, o[2])

\* The header of a public suspendible function with the pointer argument
\* dst: the stored error, then the argument check.
HeaderStatus(g, dstOK) ==
  IF g.status \in GifErrors THEN g.status
  ELSE IF ~dstOK THEN errBadArgument
  ELSE "ok"

NoGifCall ==
  [f |-> "none", entered |-> FALSE, call_sequence |-> 0, point |-> 0,
   status |-> "ok"]

GifInit == gif = NewDecoder /\ gifCall = NoGifCall /\ gifCalls = 0

\* wuffs_gif__decoder__decode_config(self, dst, src)
CallDecodeConfig ==
  /\ gifCalls < MaxGifCalls
  /\ gifCalls' = gifCalls + 1
  /\ \E dstOK \in BOOLEAN, o \in SubOutcomes \X SubOutcomes \X BlockOutcomes :
       /\ gif' = IF HeaderStatus(gif, dstOK) # "ok"
                   THEN [gif EXCEPT !.status = HeaderStatus(gif, dstOK)]
                   ELSE decode_config(gif, o)
       /\ gifCall' = [f |-> "decode_config",
                      entered |-> HeaderStatus(gif, dstOK) = "ok",
                      call_sequence |-> gif.call_sequence,
                      point |-> gif.decode_config,
                      status |-> gif'.status]

\* wuffs_gif__decoder__decode_frame(self, dst, src)
CallDecodeFrame ==
  /\ gifCalls < MaxGifCalls
  /\ gifCalls' = gifCalls + 1
  /\ \E dstOK \in BOOLEAN, o \in BlockOutcomes \X SubOutcomes :
       /\ gif' = IF HeaderStatus(gif, dstOK) # "ok"
                   THEN [gif EXCEPT !.status = HeaderStatus(gif, dstOK)]
                   ELSE decode_frame(gif, o)
       /\ gifCall' = [f |-> "decode_frame",
                      entered |-> HeaderStatus(gif, dstOK) = "ok",
                      call_sequence |-> gif.call_sequence,
                      point |-> gif.decode_frame,
                      status |-> gif'.status]

(***************************************************************************)
(* cgen: the jump statements of a function with many loops.  The funk      *)
(* starts with no loop registered, or with all but a few of the numbers    *)
(* below the limit given to earlier loops.                                 *)
(***************************************************************************)
Loops == 1..MaxLoops
JumpStarts == {0} \cup { maxJumpTargets - d : d \in 0..NearCap }
NoJump == [loop |-> 0, kw |-> "", jt |-> 0, isNew |-> FALSE, err |-> ""]

JumpIdle ==
  /\ jumpFunk = NewFunk(NoFunc, Z32)
  /\ jumpOrder = <<>>
  /\ jumpRes = NoJump

JumpInit ==
  /\ \E e \in JumpStarts :
       jumpFunk = [NewFunk(NoFunc, Z32) EXCEPT !.jumpTargets.earlier = e]
  /\ jumpOrder = <<>>
  /\ jumpRes = NoJump

\* g.writeStatement(b, n, depth) for a jump n.  An error ends the emission
\* of the function: the error is returned and nothing more is written.
WriteStatementJump ==
  /\ ~Failed(jumpFunk)
  /\ Len(jumpFunk.bBody) < MaxJumps
  /\ \E loop \in Loops, kw \in {"break", "continue"} :
       /\ jumpFunk' = writeStatement(jumpFunk, "bBody", JumpStmt(kw, loop), 0)
       /\ jumpOrder' = IF \E i \in 1..Len(jumpOrder) : jumpOrder[i] = loop
                         THEN jumpOrder ELSE Append(jumpOrder, loop)
       /\ jumpRes' = [loop |-> loop, kw |-> kw,
                      jt |-> IF Failed(jumpFunk') THEN 0
                             ELSE jumpFunk'.bBody[Len(jumpFunk'.bBody)].n,
                      isNew |-> loop \notin DOMAIN jumpFunk.jumpTargets.of,
                      err |-> jumpFunk'.err]

(***************************************************************************)
(* cgen: while loops and io_binds of a function body.  The flags of a loop *)
(* say whether a continue or a break inside it names it.                   *)
(***************************************************************************)
\* The jumps and the io_binds of a body, in the order of the source.
RECURSIVE JumpsIn(_)
JumpsIn(body) ==
  IF body = <<>> THEN <<>>
  ELSE (CASE Head(body).k = "jump" -> <<Head(body)>>
          [] Head(body).k \in {"while", "iobind"} -> JumpsIn(Head(body).body)
          [] Head(body).k = "if" ->
               JumpsIn(Head(body).body) \o JumpsIn(Head(body).els)
                 \o JumpsIn(Head(body).elif)
          [] OTHER -> <<>>) \o JumpsIn(Tail(body))
Names(body, kw, loop) ==
  \E i \in 1..Len(JumpsIn(body)) :
    JumpsIn(body)[i].kw = kw /\ JumpsIn(body)[i].loop = loop
While(loop, body) ==
  WhileNode(loop, Var, body, Names(body, "continue", loop), Names(body, "break", loop))

\* The readers and writers an io_bind names: the locals r and w, the
\* arguments in.src and in.dst.
LocalR == IOField("r", TRUE, FALSE)
LocalW == IOField("w", TRUE, TRUE)
ArgSrc == IOField("src", FALSE, FALSE)
ArgDst == IOField("dst", FALSE, TRUE)

\* The while statements of the model, with the loops b and b + 1.
WhileShapes(b) ==
  { While(b, body) :
      body \in { <<>>,
                 <<JumpStmt("break", b)>>,
                 <<JumpStmt("continue", b)>>,
                 <<JumpStmt("continue", b), JumpStmt("break", b)>>,
                 <<AssignStmt(Var), JumpStmt("break", b)>>,
                 <<While(b + 1, <<JumpStmt("break", b + 1)>>)>>,
                 <<While(b + 1, <<JumpStmt("break", b)>>)>>,
                 <<While(b + 1, <<JumpStmt("continue", b), JumpStmt("break", b + 1)>>),
                   JumpStmt("break", b)>>,
                 <<While(b + 1, <<JumpStmt("continue", b + 1)>>),
                   JumpStmt("continue", b)>>,
                 <<IfStmt(Var, <<JumpStmt("break", b)>>, <<JumpStmt("continue", b)>>,
                          <<>>)>>,
                 <<IOBindNode(<<LocalR>>, <<JumpStmt("continue", b)>>)>> } }

\* The io_bind statements of the model.
IOBindShapes(b) ==
  { IOBindNode(<<LocalR>>, <<>>),
    IOBindNode(<<ArgSrc>>, <<AssignStmt(Var)>>),
    IOBindNode(<<LocalR, ArgDst>>, <<AssignStmt(Var)>>),
    IOBindNode(<<LocalW, LocalR>>, <<>>),
    IOBindNode(<<ArgSrc, LocalW, ArgDst>>, <<>>),
    IOBindNode(<<LocalR>>, <<IOBindNode(<<LocalW>>, <<>>)>>),
    IOBindNode(<<LocalR>>, <<IOBindNode(<<ArgSrc>>, <<>>),
                             IOBindNode(<<LocalW>>, <<AssignStmt(Var)>>)>>),
    IOBindNode(<<ArgDst>>, <<While(b, <<JumpStmt("break", b)>>)>>) }

\* A funk at the start of a body, or late in a long one: the loops that were
\* registered and the io_binds that were written before.
LoopStarts ==
  { <<0, 0>>, <<maxJumpTargets - 1, 0>>, <<0, maxIOBinds - 1>>, <<0, maxIOBinds>>,
    <<0, maxIOBinds + 1>> }

LoopIdle ==
  /\ loopFunk = NewFunk(NoFunc, Z32)
  /\ loopBody = <<>>
  /\ loopFrom = 1

LoopInit ==
  /\ \E st \in LoopStarts :
       loopFunk = [NewFunk(NoFunc, Z32) EXCEPT !.jumpTargets.earlier = st[1],
                                               !.ioBinds = st[2]]
  /\ loopBody = <<>>
  /\ loopFrom = 1

\* g.writeStatement(b, n, depth) for the next statement n of the body.
WriteLoopStatement(n) ==
  /\ loopFunk' = writeStatement(loopFunk, "bBody", n, 0)
  /\ loopBody' = Append(loopBody, n)
  /\ loopFrom' = Len(loopFunk.bBody) + 1

WriteStatementWhile ==
  /\ ~Failed(loopFunk)
  /\ Len(loopBody) < MaxLoopStmts
  /\ \E n \in WhileShapes(1 + 2 * Len(loopBody)) : WriteLoopStatement(n)

WriteStatementIOBind ==
  /\ ~Failed(loopFunk)
  /\ Len(loopBody) < MaxLoopStmts
  /\ \E n \in IOBindShapes(1 + 2 * Len(loopBody)) : WriteLoopStatement(n)

\* The iterate statements of the model, with the loops b and b + 1: no
\* variable, two variables, and one variable x with lengths, unrolls, bodies
\* and else_iterate chains.
IterateShapes(b) ==
  { IterateNode(b, <<>>, ID8, ID2, <<AssignStmt(Var)>>, <<>>),
    IterateNode(b, <<"x", "y">>, ID8, ID2, <<AssignStmt(Var)>>, <<>>),
    IterateNode(b, <<"x">>, ID8, ID2, <<AssignStmt(Var)>>, <<>>),
    IterateNode(b, <<"x">>, ID1, ID1, <<AssignStmt(Var)>>, <<>>),
    IterateNode(b, <<"x">>, ID4, ID4, <<>>, <<>>),
    IterateNode(b, <<"x">>, ID8, ID2, <<AssignStmt(Var)>>,
                <<IterateNode(b + 1, <<>>, ID1, ID1, <<AssignStmt(Var)>>, <<>>)>>),
    IterateNode(b, <<"x">>, ID2, ID1, <<AssignStmt(Var)>>,
                <<IterateNode(b + 1, <<"x">>, ID1, ID4, <<>>, <<>>)>>),
    IterateNode(b, <<"x">>, ID4, ID2, <<While(b + 1, <<JumpStmt("break", b + 1)>>)>>,
                <<>>),
    IterateNode(b, <<"x">>, ID1, ID1, <<While(b + 1, <<JumpStmt("continue", b + 1)>>)>>,
                <<>>),
    IterateNode(b, <<"x">>, ID1, ID1, <<JumpStmt("break", b)>>, <<>>),
    IterateNode(b, <<"x">>, ID2, ID1, <<AssignStmt(Var), JumpStmt("continue", b)>>,
                <<>>) }

WriteStatementIterate ==
  /\ ~Failed(loopFunk)
  /\ Len(loopBody) < MaxLoopStmts
  /\ \E n \in IterateShapes(1 + 2 * Len(loopBody)) : WriteLoopStatement(n)

(***************************************************************************)
(* The C text of a read of N bits (statement.go, writeReadUXX), run on     *)
(* readers whose cursors are ioptr_<name> and iobounds1_<name>.  A uint64  *)
(* is the sequence of its 64 bits, bit 0 first.                            *)
(***************************************************************************)
Zero64 == [i \in 1..64 |-> 0]
\* v << s and v >> s for 0 <= s < 64, a | b, v & 0xFF
Shl(v, s) == [i \in 1..64 |-> IF i - s >= 1 THEN v[i - s] ELSE 0]
Shr(v, s) == [i \in 1..64 |-> IF i + s <= 64 THEN v[i + s] ELSE 0]
Or64(a, b) == [i \in 1..64 |-> IF a[i] = 1 \/ b[i] = 1 THEN 1 ELSE 0]
AndFF(v) == [i \in 1..64 |-> IF i <= 8 THEN v[i] ELSE 0]
\* (uint64_t)n for n < 2^16
U64(n) == [i \in 1..64 |-> IF i <= 16 THEN (n \div (2 ^ (i - 1))) % 2 ELSE 0]
\* (uint32_t)v for a v below 2^8
Nat8(v) ==
  v[1] + 2 * v[2] + 4 * v[3] + 8 * v[4] + 16 * v[5] + 32 * v[6] + 64 * v[7] + 128 * v[8]

\* wuffs_base__load_u<size><endianness>(p): the N-bit value of the bytes at p.
RECURSIVE LoadLE(_)
LoadLE(bytes) ==
  IF bytes = <<>> THEN Zero64
  ELSE Or64(U64(Head(bytes)), Shl(LoadLE(Tail(bytes)), 8))
Reverse(q) == [i \in 1..Len(q) |-> q[Len(q) + 1 - i]]
Load(bytes, endianness) ==
  IF endianness = "le" THEN LoadLE(bytes) ELSE LoadLE(Reverse(bytes))

\* uint32_t t0 = *scratch >> 56; *scratch <<= 8; *scratch >>= 8;
\* *scratch |= ((uint64_t)(*ioptr++)) << t0;
AccumulateLE(scratch, byte) ==
  LET t0 == Nat8(Shr(scratch, 56))
  IN  [t0 |-> t0, scratch |-> Or64(Shr(Shl(scratch, 8), 8), Shl(U64(byte), t0))]

\* The mutant of AccumulateBE: the byte is shifted by t0.
AccumulateBELow(scratch, byte) ==
  LET t0 == Nat8(AndFF(scratch))
  IN  [t0 |-> t0, scratch |-> Or64(Shl(Shr(scratch, 8), 8), Shl(U64(byte), t0))]

\* uint32_t t0 = *scratch & 0xFF; *scratch >>= 8; *scratch <<= 8;
\* *scratch |= ((uint64_t)(*ioptr++)) << (56 - t0);
AccumulateBE(scratch, byte) ==
  LET t0 == Nat8(AndFF(scratch))
  IN  [t0 |-> t0, scratch |-> Or64(Shl(Shr(scratch, 8), 8), Shl(U64(byte), 56 - t0))]

\* t0 += 8; *scratch |= ((uint64_t)(t0)) << 56;  or  *scratch |= (uint64_t)(t0);
CountLE(scratch, t0) == Or64(scratch, Shl(U64(t0 + 8), 56))
CountBE(scratch, t0) == Or64(scratch, U64(t0 + 8))

\* The readers of the model, and the i-th byte of each under the two
\* contents of the model.
Readers == {"src", "r"}
Contents == {"up", "down"}
ByteAt(contents, reader, i) ==
  IF contents = "up" THEN (IF reader = "src" THEN i ELSE 16 + i)
  ELSE (IF reader = "src" THEN 256 - i ELSE 240 - i)

\* The sizes and endiannesses writeReadUXX is called with: those it accepts
\* and some it refuses.
ReadSizes == { 8 * i : i \in 1..9 } \cup {20}
Endiannesses == {"le", "be", "ne"}

TokenOf(text, types) == text[CHOOSE i \in 1..Len(text) : text[i].t \in types]

NoRead == [pc |-> "idle"]
ReadIdle == readRun = NoRead

\* builtin.go, outside the files modelled here, calls writeReadUXX for a
\* read_u<size><endianness> on the reader called name; each reader holds
\* some bytes between its cursor and its bound.
WriteReadUXX ==
  /\ readRun.pc = "idle"
  /\ \E name \in Readers, size \in ReadSizes, endianness \in Endiannesses,
        contents \in Contents :
       \E k \in { writeReadUXX(NewFunk(NoFunc, Z32), "bBody", ReadU32LE, name, size,
                               endianness) } :
         \E a \in {0, 1, (size \div 8) - 1, size \div 8},
            b \in IF name = "src" THEN {0} ELSE {0, 1, size \div 8} :
           readRun' =
             IF Failed(k)
             THEN [pc |-> "error", name |-> name, size |-> size,
                   endianness |-> endianness, err |-> k.err]
             ELSE [pc |-> "start", name |-> name, size |-> size,
                   endianness |-> endianness, contents |-> contents,
                   text |-> k.bBody, shortReads |-> k.shortReads,
                   avail |-> [r \in Readers |-> IF r = "src" THEN a ELSE b],
                   availAtStart |-> [r \in Readers |-> IF r = "src" THEN a ELSE b],
                   taken |-> [r \in Readers |-> <<>>],
                   path |-> "", scratch |-> Zero64, t0 |-> 0, temp1 |-> Zero64,
                   suspensions |-> 0]

\* reader r gives up its next n bytes
TakeFrom(run, r, n) ==
  [run EXCEPT !.avail[r] = @ - n,
              !.taken[r] = @ \o [i \in 1..n |-> ByteAt(run.contents, r, Len(@) + i)]]

\* if (iobounds1 - ioptr >= n) { t1 = load(ioptr); ioptr += n; }
\* else { scratch = 0; SUSPENSION_POINT; while (true) { ...
ReadTest ==
  /\ readRun.pc = "start"
  /\ LET test == TokenOf(readRun.text, {"if_available"})
         load == TokenOf(readRun.text, {"temp=load_le", "temp=load_be"})
         adv == TokenOf(readRun.text, {"advance"})
     IN  readRun' =
           IF readRun.avail[test.x] >= test.n
           THEN LET bytes == [i \in 1..(load.p[2] \div 8) |->
                                ByteAt(readRun.contents, load.x,
                                       Len(readRun.taken[load.x]) + i)]
                IN  [TakeFrom(readRun, adv.x, adv.n) EXCEPT
                       !.pc = "done", !.path = "fast",
                       !.temp1 = Load(bytes, IF load.t = "temp=load_le" THEN "le"
                                             ELSE "be")]
           ELSE [readRun EXCEPT !.pc = "loop", !.path = "slow", !.scratch = Zero64]

\* One turn of while (true): the jump to short_read_<name> at the bound, or
\* one more byte.
ReadByte ==
  /\ readRun.pc = "loop"
  /\ LET test == TokenOf(readRun.text, {"if_at_bound_goto_short_read"})
         acc == TokenOf(readRun.text, {"scratch_accumulate_le", "scratch_accumulate_be"})
         last == TokenOf(readRun.text, {"if_temp0_is"})
         res == TokenOf(readRun.text, {"temp=scratch_le", "temp=scratch_be"})
         cnt == TokenOf(readRun.text, {"temp0+=8_le", "temp0+=8_be"})
     IN  IF readRun.avail[test.x] = 0
         THEN readRun' = [readRun EXCEPT !.pc = "short_read_" \o test.x,
                                         !.suspensions = @ + 1]
         ELSE \E run \in { TakeFrom(readRun, acc.x, 1) } :
              \E step \in { IF acc.t = "scratch_accumulate_le"
                            THEN AccumulateLE(run.scratch, run.taken[acc.x][Len(run.taken[acc.x])])
                            ELSE AccumulateBE(run.scratch, run.taken[acc.x][Len(run.taken[acc.x])]) } :
                readRun' =
                  IF step.t0 = last.n
                  THEN [run EXCEPT !.pc = "done", !.t0 = step.t0,
                                   !.scratch = step.scratch,
                                   !.temp1 = IF res.t = "temp=scratch_le"
                                             THEN step.scratch
                                             ELSE Shr(step.scratch, res.p[2])]
                  ELSE [run EXCEPT !.t0 = step.t0 + 8,
                                   !.scratch = IF cnt.t = "temp0+=8_le"
                                               THEN CountLE(step.scratch, step.t0)
                                               ELSE CountBE(step.scratch, step.t0)]

\* The caller comes back with more bytes in one of the readers; the function
\* resumes at the suspension point before while (true).
ReadResume ==
  /\ readRun.pc \in {"short_read_src", "short_read_r"}
  /\ \E r \in {"src", readRun.name}, n \in 1..MaxSupply :
       /\ readRun.avail[r] + n <= MaxSupply
       /\ readRun' = [readRun EXCEPT !.pc = "loop", !.avail[r] = @ + n]

(***************************************************************************)
(* The argument checks at run time: the header of one function, as the     *)
(* generator writes it, called with arguments.                             *)
(***************************************************************************)
\* The arguments: a pointer, an io.reader, a number that is not refined, and
\* refinements of base.u8, base.i8, base.u32, base.bool, of base.status
\* (numTypeBounds holds nil for it) and of a type t of the package itself.
ArgFields ==
  { Field("p", "ptr"), Field("s", "io"), Field("n", "num"),
    RefinedField("p", "ptr", <<IDBase, IDU8>>, "1", "100"),
    RefinedField("n", "num", <<IDBase, IDU8>>, "0", "255"),
    RefinedField("n", "num", <<IDBase, IDU8>>, "1", "255"),
    RefinedField("n", "num", <<IDBase, IDU8>>, "0", "100"),
    RefinedField("n", "num", <<IDBase, IDU8>>, "1", "100"),
    RefinedField("n", "num", <<IDBase, IDU8>>, "nil", "100"),
    RefinedField("n", "num", <<IDBase, IDU8>>, "1", "nil"),
    RefinedField("n", "num", <<IDBase, IDI8>>, "-128", "5"),
    RefinedField("n", "num", <<IDBase, IDI8>>, "0", "127"),
    RefinedField("n", "num", <<IDBase, IDU32>>, "0", "4294967295"),
    RefinedField("n", "num", <<IDBase, IDU32>>, "1", "4294967295"),
    RefinedField("n", "num", <<IDBase, IDBool>>, "0", "1"),
    RefinedField("n", "num", <<IDBase, IDBool>>, "1", "1"),
    RefinedField("n", "num", <<IDBase, IDStatus>>, "0", "255"),
    RefinedField("n", "num", <<0, IDU8>>, "0", "255") }

ArgLists ==
  { <<o>> : o \in ArgFields }
    \cup { <<Field("q", "ptr"), o>> : o \in { f \in ArgFields : f.refined } }
    \cup { <<>> }

ArgFuncs ==
  { Func("f", public, suspendible, receiver, inFields, outFields) :
      public \in BOOLEAN, suspendible \in BOOLEAN, receiver \in BOOLEAN,
      inFields \in ArgLists, outFields \in 0..1 }

\* The values a caller passes: 0 is also the null pointer.
ArgValues == {0 - 128, 0, 1, 5, 6, 100, 101, 127, 255}

\* The number a decimal of the model's refinements stands for.
DecimalValue(d) ==
  CASE d = "-128" -> 0 - 128
    [] d = "0" -> 0
    [] d = "1" -> 1
    [] d = "5" -> 5
    [] d = "100" -> 100
    [] d = "127" -> 127
    [] d = "255" -> 255

\* The value v is one the C type of argument o holds.
InType(o, v) ==
  IF o.typ = "ptr" THEN v \in 0..1
  ELSE IF o.qid[2] = IDU8 \/ o.qid[2] = IDStatus THEN v \in 0..255
  ELSE IF o.qid[2] = IDI8 THEN v \in (0 - 128)..127
  ELSE IF o.qid[2] = IDBool THEN v \in 0..1
  ELSE v >= 0

\* The C condition c is true of the arguments args of function n.
CheckFails(n, args, c) ==
  \E i \in 1..Len(n.in) :
    /\ n.in[i].name = c.a
    /\ CASE c.op = "!" -> args[i] = 0
         [] c.op = "<" -> args[i] < DecimalValue(c.b)
         [] c.op = ">" -> args[i] > DecimalValue(c.b)

NoArgRun == [pc |-> "idle"]
ArgIdle == argRun = NoArgRun

\* The header of function n is written.
WriteFuncImplHeader ==
  /\ argRun = NoArgRun
  /\ \E n \in ArgFuncs :
       \E k \in { writeFuncImplHeader(NewFunk(n, Z32)) } :
         argRun' = [pc |-> "written", func |-> n, text |-> k.bHeader, err |-> k.err,
                    checks |-> IF \E i \in 1..Len(k.bHeader) :
                                    k.bHeader[i].t = "if_bad_argument{"
                               THEN ArgChecks(n) ELSE <<>>,
                    args |-> <<>>, self |-> 0, ret |-> 0, returned |-> FALSE,
                    at |-> 0]

\* The function is called, on a receiver that passes the receiver checks:
\* the header runs up to its return or to its end.
CallWithArgs ==
  /\ argRun.pc = "written"
  /\ argRun.err = ""
  /\ \E args \in [1..Len(argRun.func.in) -> ArgValues] :
       /\ \A i \in 1..Len(args) : InType(argRun.func.in[i], args[i])
       /\ \E argsOK \in { ~\E j \in 1..Len(argRun.checks) :
                               CheckFails(argRun.func, args, argRun.checks[j]) } :
            \E st \in { Exec(argRun.text, Len(argRun.text),
                              [pc |-> 1, self |-> [magic |-> TRUE, status |-> 0, coro |-> <<>>],
                               status |-> 0, coro |-> 0, ret |-> 0, done |-> FALSE,
                               bodyRan |-> FALSE],
                              argsOK, TRUE) } :
              argRun' = [argRun EXCEPT !.pc = "called", !.args = args,
                                       !.self = st.self.status, !.ret = st.ret,
                                       !.returned = st.done, !.at = st.pc]

(***************************************************************************)
(* The C text of an iterate at run time: i_slice and v are slices (ptr,    *)
(* len); pointers are offsets from the base of the slice iterated over.    *)
(***************************************************************************)
\* The iterates run: one clause, unrolled or not, and chains whose lengths
\* fall, rise, and stay.
IterBody == <<AssignStmt(Var)>>
IterateRuns ==
  { IterateNode(1, <<"x">>, ID1, ID1, IterBody, <<>>),
    IterateNode(1, <<"x">>, ID4, ID1, IterBody, <<>>),
    IterateNode(1, <<"x">>, ID4, ID4, <<>>, <<>>),
    IterateNode(1, <<"x">>, ID8, ID2, IterBody, <<>>),
    IterateNode(1, <<"x">>, ID8, ID2, IterBody,
                <<IterateNode(2, <<"x">>, ID1, ID1, IterBody, <<>>)>>),
    IterateNode(1, <<"x">>, ID2, ID1, IterBody,
                <<IterateNode(2, <<"x">>, ID8, ID2, IterBody, <<>>)>>),
    IterateNode(1, <<"x">>, ID4, ID2, IterBody,
                <<IterateNode(2, <<"x">>, ID2, ID4, <<>>,
                              <<IterateNode(3, <<"x">>, ID4, ID1, IterBody, <<>>)>>)>>) }

\* The index of the brace that closes the block opened at token i of text, and
\* of the token that opens the block closed at token j.
IterOpens(tok) == tok.t = "{" \/ tok.t = "while v.ptr<i_end"
RECURSIVE CloseOf(_, _, _)
CloseOf(text, i, depth) ==
  IF i > Len(text) THEN i
  ELSE IF IterOpens(text[i]) THEN CloseOf(text, i + 1, depth + 1)
  ELSE IF text[i].t = "}"
  THEN (IF depth = 1 THEN i ELSE CloseOf(text, i + 1, depth - 1))
  ELSE CloseOf(text, i + 1, depth)
RECURSIVE OpenOf(_, _, _)
OpenOf(text, j, depth) ==
  IF j < 1 THEN j
  ELSE IF text[j].t = "}" THEN OpenOf(text, j - 1, depth + 1)
  ELSE IF IterOpens(text[j])
  THEN (IF depth = 1 THEN j ELSE OpenOf(text, j - 1, depth - 1))
  ELSE OpenOf(text, j - 1, depth)

NoIterRun == [pc |-> "idle"]
IterRunIdle == iterRun = NoIterRun

\* The text of an iterate is written, and entered with slice s of len bytes.
IterStart ==
  /\ iterRun = NoIterRun
  /\ \E n \in IterateRuns, len \in 0..MaxSliceLen :
       \E k \in { writeStatementIterate(NewFunk(NoFunc, Z32), "bBody", n, 0) } :
         iterRun' = [pc |-> "run", node |-> n, text |-> k.bBody, len |-> len, at |-> 1,
                     ptr |-> 0, vlen |-> 0, round |-> 0, ends |-> <<>>, views |-> <<>>]

\* One statement of the text is executed; the body's execution is recorded
\* with the pointer advance that follows it.
IterStep ==
  /\ iterRun.pc = "run"
  /\ \E r \in {iterRun}, tok \in {iterRun.text[iterRun.at]} :
       \E x \in {
            CASE tok.t = "v=i_slice" -> [r EXCEPT !.ptr = 0, !.vlen = r.len]
              [] tok.t = "v.len=" -> [r EXCEPT !.vlen = tok.n]
              [] tok.t = "i_end=" -> [r EXCEPT !.round = tok.n]
              [] tok.t = "i_slice.ptr+(i_slice.len/m)*m" ->
                   [r EXCEPT !.ends = (r.round :> ((r.len \div tok.n) * tok.n)) @@ @]
              [] tok.t = "while v.ptr<i_end" ->
                   IF r.ptr < r.ends[tok.n] THEN r
                   ELSE [r EXCEPT !.at = CloseOf(r.text, r.at + 1, 1)]
              [] tok.t = "v.ptr+=" ->
                   [r EXCEPT !.views = Append(@, <<r.ptr, r.vlen>>), !.ptr = @ + tok.n]
              [] tok.t = "}" ->
                   LET o == OpenOf(r.text, r.at - 1, 1)
                   IN  IF r.text[o].t = "while v.ptr<i_end"
                       THEN [r EXCEPT !.at = o - 1] ELSE r
              [] OTHER -> r } :
         iterRun' = IF x.at + 1 > Len(x.text)
                    THEN [x EXCEPT !.pc = "done", !.at = @ + 1]
                    ELSE [x EXCEPT !.at = @ + 1]

(***************************************************************************)
(* std/gif: decoder.copy_to_image_buffer, one turn of its loop at a time.  *)
(* The sums of the model stay far below 2^32, where ~sat+ and + agree.     *)
(***************************************************************************)
\* uncompressed array[4096] base.u8, and the u32[..4096] of its two indexes
uncompressedLen == 4096
Least(a, b) == IF a <= b THEN a ELSE b

\* The calls: the indexes into uncompressed (each is a u32[..4096] of its
\* own), the frame rectangle with the cursor in it, and the plane of the image
\* buffer, whose row y holds width bytes when y is below height, else none.
CopyIndexes ==
  UNION { { <<ri, wi>> : ri \in 0..wi } : wi \in 0..MaxPixels }
    \cup { <<uncompressedLen - d, uncompressedLen>> : d \in 0..1 }
    \cup { <<1, 0>>, <<uncompressedLen, uncompressedLen - 1>> }
CopyCalls ==
  { [ri |-> i[1], wi |-> i[2], dst_x |-> x, dst_y |-> y, dst_x0 |-> x0, dst_x1 |-> x1,
     dst_y1 |-> y1, interlace |-> il, width |-> w, height |-> h] :
      i \in CopyIndexes, x0 \in 0..MaxWidth, x1 \in 0..(MaxWidth + 1),
      x \in 0..MaxWidth, y \in 0..MaxHeight, y1 \in 0..(MaxHeight + 1),
      il \in BOOLEAN, w \in {0, MaxWidth - 1, MaxWidth}, h \in {1, MaxHeight} }

\* decode_id_part0 sets dst_x = dst_x0 <= dst_x1 and dst_y <= dst_y1, and a
\* call leaves the cursor at the start of a row or inside one.
CopyCallOK(c) ==
  /\ c.dst_x0 <= c.dst_x1
  /\ c.dst_x0 <= c.dst_x
  /\ c.dst_x < c.dst_x1 \/ c.dst_x = c.dst_x0
  /\ c.dst_y <= c.dst_y1

\* The mutant of SkipCount: the pixels left in the row are not capped by the
\* bytes left in uncompressed.
SkipCountOfRow(c) == c.dst_x1 - c.dst_x

\* n = this.dst_x1 - this.dst_x; n = n.min(x:this.uncompressed_wi - this.uncompressed_ri)
SkipCount(c) == Least(c.dst_x1 - c.dst_x, c.wi - c.ri)

\* new_ri = ri ~sat+ n; ri = new_ri.min(x:4096); dst_x ~sat+= n
Consume(c, n) ==
  [c EXCEPT !.ri = Least(c.ri + n, uncompressedLen), !.dst_x = @ + n]

\* this.dst_x = this.dst_x0; this.dst_y += 1; continue
NextRow(c) == [c EXCEPT !.dst_x = c.dst_x0, !.dst_y = @ + 1, !.flow = "continue"]

\* The lengths dst.copy_from_slice(s:src) may return: at most the length
\* of dst and of src; the base library copies as much as fits.
CopyFromSlice(dstLen, srcLen) == {0, Least(dstLen, srcLen)}

\* One turn of the while loop, from its test to a continue, a break or a
\* return; copied is the choice of the length that copy_from_slice returns.
CopyTurn(c0, copied) ==
  LET c == [c0 EXCEPT !.entered = TRUE]
      rowLen == IF c.dst_y < c.height THEN c.width ELSE 0
      dstLen == IF c.dst_x <= c.dst_x1 /\ c.dst_x1 <= rowLen
                THEN c.dst_x1 - c.dst_x ELSE rowLen - c.dst_x
      Second(c1) ==
        IF c1.dst_x1 <= c1.dst_x THEN NextRow(c1)
        ELSE IF c1.wi = c1.ri THEN [c1 EXCEPT !.flow = "break"]
        ELSE IF c1.wi < c1.ri
        THEN [c1 EXCEPT !.flow = "internal error: inconsistent ri/wi"]
        ELSE
          LET c2 == Consume(c1, SkipCount(c1))
          IN  IF c2.dst_x1 <= c2.dst_x THEN NextRow(c2)
              ELSE IF c2.ri # c2.wi
              THEN [c2 EXCEPT !.flow = "internal error: inconsistent ri/wi"]
              ELSE [c2 EXCEPT !.flow = "break"]
  IN  IF c.dst_y >= c.dst_y1 THEN {[c EXCEPT !.flow = "too much pixel data"]}
      ELSE IF c.interlace THEN {[c EXCEPT !.flow = "TODO: unsupported interlacing"]}
      ELSE IF c.dst_x < rowLen
      THEN { Second(Consume(c, n)) : n \in CopyFromSlice(dstLen, c.wi - c.ri) }
      ELSE {Second(c)}

NoCopyRun == [pc |-> "idle"]
CopyIdle == copyRun = NoCopyRun

\* copy_to_image_buffer is called.
CopyCall ==
  /\ copyRun = NoCopyRun
  /\ \E c \in CopyCalls :
       /\ CopyCallOK(c)
       /\ copyRun' = [pc |-> "loop", flow |-> "continue", entered |-> FALSE] @@ c

\* while this.uncompressed_wi > this.uncompressed_ri { ... }, and the two
\* assignments after the loop.
CopyLoop ==
  /\ copyRun.pc = "loop"
  /\ IF copyRun.wi > copyRun.ri
     THEN \E c \in CopyTurn(copyRun, 0) :
            copyRun' = IF c.flow = "continue" THEN c
                       ELSE IF c.flow = "break"
                       THEN [c EXCEPT !.pc = "done", !.flow = "ok", !.ri = 0, !.wi = 0]
                       ELSE [c EXCEPT !.pc = "done"]
     ELSE copyRun' = [copyRun EXCEPT !.pc = "done", !.flow = "ok", !.ri = 0, !.wi = 0]

(***************************************************************************)
(* std/zlib: decoder.decode, from a call or a resumption to its next       *)
(* return.  The deflate decoder and the Adler-32 hasher are other packages: *)
(* a flate.decode writes some more of the payload and returns any status.  *)
(***************************************************************************)
\* The bytes the deflate decoder has to write.
Payload == [i \in 1..MaxOut |-> IF i = MaxOut THEN 9 ELSE 7]

\* The Adler-32 of the bytes of s, as the halves <<b, a>> of the u32.
RECURSIVE Adler32From(_, _, _)
Adler32From(s, a, b) ==
  IF s = <<>> THEN <<b, a>>
  ELSE Adler32From(Tail(s), (a + Head(s)) % 65521, (b + a + Head(s)) % 65521)
Adler32(s) == Adler32From(s, 1, 0)

\* The first two bytes, big-endian: 0x7801 passes, 0x7701 has a bad method,
\* 0x8801 a bad window size, 0x7820 a preset dictionary, 0x7802 a bad parity.
ZlibHeaders == {30721, 30465, 34817, 30752, 30722}

\* The four checks of x, in their order: "" when x passes.
ZlibHeaderError(x) ==
  IF ((x \div 256) % 16) # 8 THEN "bad compression method"
  ELSE IF (x \div 4096) > 7 THEN "bad compression window size"
  ELSE IF ((x \div 32) % 2) # 0 THEN "TODO: unsupported preset dictionary"
  ELSE IF (x % 31) # 0 THEN "bad parity check"
  ELSE ""

FlateStatuses == {"ok", "short read", "short write", "bad block"}
IsSuspension(z) == z = "short read" \/ z = "short write"

NoZlibRun == [pc |-> "idle"]
ZlibIdle == zlibRun = NoZlibRun

\* decode is called on a new decoder.
ZlibCall ==
  /\ zlibRun = NoZlibRun
  /\ \E ic \in BOOLEAN :
       zlibRun' = [pc |-> "header", suspended |-> FALSE, ignore_checksum |-> ic,
                   everIgnored |-> ic, x |-> 0, mark |-> 0, written |-> <<>>,
                   fed |-> <<>>, checksum_got |-> <<0, 0>>, checksum_want |-> <<0, 0>>,
                   status |-> "", suspensions |-> 0]

\* set_ignore_checksum is called while decode is suspended.
ZlibSetIgnoreChecksum ==
  /\ zlibRun.pc \notin {"idle", "done"}
  /\ zlibRun.suspended
  /\ \E ic \in BOOLEAN :
       /\ ic # zlibRun.ignore_checksum
       /\ zlibRun' = [zlibRun EXCEPT !.ignore_checksum = ic,
                                     !.everIgnored = @ \/ ic]

\* The run r suspends with status z, if the caller may be asked once more.
Suspend(r, z) ==
  [r EXCEPT !.suspended = TRUE, !.status = z, !.suspensions = @ + 1]

\* var x = in.src.read_u16be?() and the four checks.
ZlibHeader ==
  /\ zlibRun.pc = "header"
  /\ \/ /\ zlibRun.suspensions < MaxSuspensions
        /\ zlibRun' = Suspend(zlibRun, "short read")
     \/ \E x \in ZlibHeaders :
          zlibRun' = IF ZlibHeaderError(x) # ""
                     THEN [zlibRun EXCEPT !.pc = "done", !.suspended = FALSE, !.x = x,
                                          !.status = ZlibHeaderError(x)]
                     ELSE [zlibRun EXCEPT !.pc = "loop", !.suspended = FALSE, !.x = x,
                                          !.status = ""]

\* The mutant of DecodeTurn: the mark is set once, before the first try.
DecodeTurnMarkOnce(r, k, z) ==
  LET r1 == [r EXCEPT !.mark = IF r.suspensions = 0 THEN Len(r.written) ELSE @]
      r2 == [r1 EXCEPT !.written = @ \o SubSeq(Payload, Len(@) + 1, Len(@) + k)]
      sinceMark == SubSeq(r2.written, r2.mark + 1, Len(r2.written))
      r3 == IF ~r2.ignore_checksum
            THEN [r2 EXCEPT !.fed = @ \o sinceMark,
                            !.checksum_got = Adler32(r2.fed \o sinceMark)]
            ELSE r2
  IN  IF z = "ok" THEN [r3 EXCEPT !.pc = "trailer", !.suspended = FALSE, !.status = ""]
      ELSE IF IsSuspension(z) THEN Suspend(r3, z)
      ELSE [r3 EXCEPT !.pc = "done", !.suspended = FALSE, !.status = z]

\* One turn of the loop: in.dst.set_mark!(); z = try flate.decode, which
\* writes the next k bytes; checksum.update!(x:in.dst.since_mark()) unless
\* ignore_checksum; break when z is ok, else yield z.
DecodeTurn(r, k, z) ==
  LET r1 == [r EXCEPT !.mark = Len(r.written)]
      r2 == [r1 EXCEPT !.written = @ \o SubSeq(Payload, Len(@) + 1, Len(@) + k)]
      sinceMark == SubSeq(r2.written, r2.mark + 1, Len(r2.written))
      r3 == IF ~r2.ignore_checksum
            THEN [r2 EXCEPT !.fed = @ \o sinceMark,
                            !.checksum_got = Adler32(r2.fed \o sinceMark)]
            ELSE r2
  IN  IF z = "ok" THEN [r3 EXCEPT !.pc = "trailer", !.suspended = FALSE, !.status = ""]
      ELSE IF IsSuspension(z) THEN Suspend(r3, z)
      ELSE [r3 EXCEPT !.pc = "done", !.suspended = FALSE, !.status = z]

ZlibTry ==
  /\ zlibRun.pc = "loop"
  /\ \E k \in 0..(MaxOut - Len(zlibRun.written)), z \in FlateStatuses :
       /\ IsSuspension(z) => zlibRun.suspensions < MaxSuspensions
       /\ zlibRun' = DecodeTurn(zlibRun, k, z)

\* var checksum_want = in.src.read_u32be?() and the comparison: the
\* trailer is the Adler-32 of the payload, of nothing, or of what was fed.
ZlibTrailer ==
  /\ zlibRun.pc = "trailer"
  /\ \/ /\ zlibRun.suspensions < MaxSuspensions
        /\ zlibRun' = Suspend(zlibRun, "short read")
     \/ \E want \in {Adler32(Payload), Adler32(<<>>), Adler32(zlibRun.fed)} :
          zlibRun' = [zlibRun EXCEPT
                        !.pc = "done", !.suspended = FALSE, !.checksum_want = want,
                        !.status = IF ~zlibRun.ignore_checksum
                                      /\ zlibRun.checksum_got # want
                                   THEN "bad checksum" ELSE "ok"]

(***************************************************************************)
(* The specifications.                                                     *)
(***************************************************************************)
LexIdle == lexSrc = <<>> /\ lexToks = <<>> /\ lexPc = "idle"
ExecIdle == ReadIdle /\ IterRunIdle /\ CopyIdle /\ ZlibIdle /\ ArgIdle
ExtIdle == MapIdle /\ EqIdle /\ GifInit /\ JumpIdle /\ LoopIdle /\ ExecIdle
OldIdle == FormsInit /\ LexIdle /\ GenInit /\ CoroIdle /\ RunIdle /\ ExecIdle
oldVars == <<formVars, lexVars, genVars, coroVars, runVars, execVars>>
BaseIdle ==
  /\ FormsInit /\ LexIdle /\ GenInit /\ CoroIdle /\ RunIdle
  /\ MapIdle /\ EqIdle /\ GifInit /\ JumpIdle /\ LoopIdle
baseVars ==
  <<formVars, lexVars, genVars, coroVars, runVars, mapVars, eqVars, gifVars, jumpVars,
    loopVars>>

InitFormsSpec == FormsInit /\ LexIdle /\ GenInit /\ CoroIdle /\ RunIdle /\ ExtIdle
NextForms ==
  \/ InitForms /\ UNCHANGED <<lexVars, genVars, coroVars, runVars, extVars>>
  \/ CallUnaryForm /\ UNCHANGED <<lexVars, genVars, coroVars, runVars, extVars>>
  \/ CallBinaryForm /\ UNCHANGED <<lexVars, genVars, coroVars, runVars, extVars>>
  \/ CallAssociativeForm /\ UNCHANGED <<lexVars, genVars, coroVars, runVars, extVars>>
SpecForms == InitFormsSpec /\ [][NextForms]_vars

InitLexSpec == LexInit /\ FormsInit /\ GenInit /\ CoroIdle /\ RunIdle /\ ExtIdle
NextLex ==
  \/ LexSquiggle /\ UNCHANGED <<formVars, genVars, coroVars, runVars, extVars>>
  \/ LexSuffix /\ UNCHANGED <<formVars, genVars, coroVars, runVars, extVars>>
  \/ LexOther /\ UNCHANGED <<formVars, genVars, coroVars, runVars, extVars>>
SpecLex == InitLexSpec /\ [][NextLex]_vars

InitGenSpec == GenInit /\ FormsInit /\ LexIdle /\ CoroIdle /\ RunIdle /\ ExtIdle
NextGen ==
  \/ GatherBegin /\ UNCHANGED <<formVars, lexVars, coroVars, runVars, extVars>>
  \/ GatherBodyStatement /\ UNCHANGED <<formVars, lexVars, coroVars, runVars, extVars>>
  \/ GatherEnd /\ UNCHANGED <<formVars, lexVars, coroVars, runVars, extVars>>
  \/ WriteFuncImpl /\ UNCHANGED <<formVars, lexVars, coroVars, runVars, extVars>>
SpecGen == InitGenSpec /\ [][NextGen]_vars

InitCoroSpec == CoroInit /\ FormsInit /\ LexIdle /\ GenInit /\ RunIdle /\ ExtIdle
NextCoro == WriteCoroSuspPoint /\ UNCHANGED <<formVars, lexVars, genVars, runVars, extVars>>
SpecCoro == InitCoroSpec /\ [][NextCoro]_vars

InitRunSpec == RunInit /\ FormsInit /\ LexIdle /\ GenInit /\ CoroIdle /\ ExtIdle
NextRun ==
  \/ CallDecode /\ UNCHANGED <<formVars, lexVars, genVars, coroVars, extVars>>
  \/ CallEncode /\ UNCHANGED <<formVars, lexVars, genVars, coroVars, extVars>>
  \/ CallReset /\ UNCHANGED <<formVars, lexVars, genVars, coroVars, extVars>>
SpecRun == InitRunSpec /\ [][NextRun]_vars

InitMapSpec == MapInit /\ OldIdle /\ EqIdle /\ GifInit /\ JumpIdle /\ LoopIdle
NextMap ==
  \/ Insert /\ UNCHANGED <<oldVars, eqVars, gifVars, jumpVars, loopVars>>
  \/ Classify /\ UNCHANGED <<oldVars, eqVars, gifVars, jumpVars, loopVars>>
SpecMap == InitMapSpec /\ [][NextMap]_vars

InitEqSpec == EqInit /\ OldIdle /\ MapIdle /\ GifInit /\ JumpIdle /\ LoopIdle
NextEq == CallEq /\ UNCHANGED <<oldVars, mapVars, gifVars, jumpVars, loopVars>>
SpecEq == InitEqSpec /\ [][NextEq]_vars

\* Eq of expressions, and Eq and EqIgnoringRefinements of types.
InitSymSpec == SymInit /\ OldIdle /\ MapIdle /\ GifInit /\ JumpIdle /\ LoopIdle
NextSym ==
  \/ CallEq /\ UNCHANGED <<oldVars, mapVars, gifVars, jumpVars, loopVars>>
  \/ CallTypeEq /\ UNCHANGED <<oldVars, mapVars, gifVars, jumpVars, loopVars>>
  \/ CallEqIgnoringRefinements /\ UNCHANGED <<oldVars, mapVars, gifVars, jumpVars, loopVars>>
SpecSym == InitSymSpec /\ [][NextSym]_vars

InitGifSpec == GifInit /\ OldIdle /\ MapIdle /\ EqIdle /\ JumpIdle /\ LoopIdle
NextGif ==
  \/ CallDecodeConfig /\ UNCHANGED <<oldVars, mapVars, eqVars, jumpVars, loopVars>>
  \/ CallDecodeFrame /\ UNCHANGED <<oldVars, mapVars, eqVars, jumpVars, loopVars>>
SpecGif == InitGifSpec /\ [][NextGif]_vars

InitJumpSpec == JumpInit /\ OldIdle /\ MapIdle /\ EqIdle /\ GifInit /\ LoopIdle
NextJump ==
  WriteStatementJump /\ UNCHANGED <<oldVars, mapVars, eqVars, gifVars, loopVars>>
SpecJump == InitJumpSpec /\ [][NextJump]_vars

InitLoopSpec == LoopInit /\ OldIdle /\ MapIdle /\ EqIdle /\ GifInit /\ JumpIdle
NextLoop ==
  \/ WriteStatementWhile /\ UNCHANGED <<oldVars, mapVars, eqVars, gifVars, jumpVars>>
  \/ WriteStatementIOBind /\ UNCHANGED <<oldVars, mapVars, eqVars, gifVars, jumpVars>>
SpecLoop == InitLoopSpec /\ [][NextLoop]_vars

InitReadSpec == ReadIdle /\ IterRunIdle /\ CopyIdle /\ ZlibIdle /\ ArgIdle /\ BaseIdle
notReadVars == <<baseVars, iterRun, copyRun, zlibRun, argRun>>
NextRead ==
  \/ WriteReadUXX /\ UNCHANGED notReadVars
  \/ ReadTest /\ UNCHANGED notReadVars
  \/ ReadByte /\ UNCHANGED notReadVars
  \/ ReadResume /\ UNCHANGED notReadVars
SpecRead == InitReadSpec /\ [][NextRead]_vars

\* The text of an iterate, written and run to its end: the C code runs on.
notIterVars == <<baseVars, readRun, copyRun, zlibRun, argRun>>
NextIterRun ==
  \/ IterStart /\ UNCHANGED notIterVars
  \/ IterStep /\ UNCHANGED notIterVars
SpecIterRun == InitReadSpec /\ [][NextIterRun]_vars /\ WF_vars(IterStep /\ UNCHANGED notIterVars)

\* copy_to_image_buffer, called and run to its return: a call runs on.
notCopyVars == <<baseVars, readRun, iterRun, zlibRun, argRun>>
NextCopy ==
  \/ CopyCall /\ UNCHANGED notCopyVars
  \/ CopyLoop /\ UNCHANGED notCopyVars
SpecCopy == InitReadSpec /\ [][NextCopy]_vars /\ WF_vars(CopyLoop /\ UNCHANGED notCopyVars)

\* zlib's decode, called, suspended and resumed.
notZlibVars == <<baseVars, readRun, iterRun, copyRun, argRun>>
NextZlib ==
  \/ ZlibCall /\ UNCHANGED notZlibVars
  \/ ZlibSetIgnoreChecksum /\ UNCHANGED notZlibVars
  \/ ZlibHeader /\ UNCHANGED notZlibVars
  \/ ZlibTry /\ UNCHANGED notZlibVars
  \/ ZlibTrailer /\ UNCHANGED notZlibVars
SpecZlib == InitReadSpec /\ [][NextZlib]_vars

\* The argument checks of a function, written and run.
notArgVars == <<baseVars, readRun, iterRun, copyRun, zlibRun>>
NextArgs ==
  \/ WriteFuncImplHeader /\ UNCHANGED notArgVars
  \/ CallWithArgs /\ UNCHANGED notArgVars
SpecArgs == InitReadSpec /\ [][NextArgs]_vars

NextIter ==
  WriteStatementIterate /\ UNCHANGED <<oldVars, mapVars, eqVars, gifVars, jumpVars>>
SpecIter == InitLoopSpec /\ [][NextIter]_vars

(***************************************************************************)
(* Claims about the token tables.                                          *)
(***************************************************************************)
LongestMatch(tk) ==
  \A j \in Matches(lexers[Head(tk.at)], Tail(tk.at)) :
     Len(lexers[Head(tk.at)][j].suffix) <= tk.n - 1

\* C8: maximal munch.  Every token the suffix lexer produced came from the
\* longest entry of its list that matches the input at that point, although
\* the lexer took the first one; "<<=", "<<", "<=", "<" lex as IDShiftLEq,
\* IDShiftL, IDLessEq, IDLessThan over 3, 2, 2, 1 bytes, "~sat+=" as
\* IDTildeSatPlusEq and "~mod-" as IDTildeModMinus.
C8_MaximalMunch ==
  \A k \in 1..Len(lexToks) :
    LET tk == lexToks[k] IN
    tk.entry # 0 =>
      /\ LongestMatch(tk)
      /\ HasPrefix(tk.at, <<"<", "<", "=">>) => tk.id = IDShiftLEq /\ tk.n = 3
      /\ HasPrefix(tk.at, <<"<", "<">>) /\ ~HasPrefix(tk.at, <<"<", "<", "=">>)
           => tk.id = IDShiftL /\ tk.n = 2
      /\ HasPrefix(tk.at, <<"<", "=">>) => tk.id = IDLessEq /\ tk.n = 2
      /\ Head(tk.at) = "<" /\ ~HasPrefix(tk.at, <<"<", "<">>)
           /\ ~HasPrefix(tk.at, <<"<", "=">>)
           => tk.id = IDLessThan /\ tk.n = 1
      /\ HasPrefix(tk.at, <<"~", "s", "a", "t", "+", "=">>)
           => tk.id = IDTildeSatPlusEq /\ tk.n = 6
      /\ HasPrefix(tk.at, <<"~", "m", "o", "d", "-">>)
           /\ ~HasPrefix(tk.at, <<"~", "m", "o", "d", "-", "=">>)
           => tk.id = IDTildeModMinus /\ tk.n = 5

\* "<<=" was lexed where three entries of the '<' list matched.
C8_Witness ==
  \E k \in 1..Len(lexToks) :
    /\ lexToks[k].id = IDShiftLEq /\ lexToks[k].n = 3
    /\ Cardinality(Matches(lexers["<"], Tail(lexToks[k].at))) = 3

\* C9 as stated: where the lexer has tried the list of a byte, that list
\* ends with an empty-suffix entry and the lexer found a match.
C9_EveryListHasFallback ==
  \A c \in Bytes :
    lexPc # "run" /\ lexSrc # <<>> /\ Head(lexSrc) = c /\ lexers[c] # <<>> =>
      /\ lexers[c][Len(lexers[c])].suffix = <<>>
      /\ lexPc # "nomatch"

\* C9 amended: every non-empty list but the one of '~' ends with its only
\* empty-suffix entry, and a byte with such a list always lexes to a token;
\* the '~' list has no empty-suffix entry, and the lexer finds no match
\* exactly for a '~' that none of mod+, mod-, sat+, sat- follows.
C9_FallbackExceptTilde ==
  /\ \A c \in Bytes \ {"~"} :
       lexers[c] # <<>> =>
         \A i \in 1..Len(lexers[c]) :
            (lexers[c][i].suffix = <<>>) <=> (i = Len(lexers[c]))
  /\ lexers["~"] # <<>>
  /\ \A i \in 1..Len(lexers["~"]) : lexers["~"][i].suffix # <<>>
  /\ lexPc = "nomatch" =>
       /\ Head(lexSrc) = "~"
       /\ \A w \in {<<"m", "o", "d">>, <<"s", "a", "t">>} :
            \A s \in {"+", "-"} : ~HasPrefix(Tail(lexSrc), Append(w, s))
  /\ \A k \in 1..Len(lexToks) :
       lexToks[k].entry # 0 /\ lexToks[k].n = 1 =>
          lexers[Head(lexToks[k].at)][lexToks[k].entry].suffix = <<>>

\* A '<' fell back to its single-byte token, and then a '~' found no match.
C9_Witness ==
  /\ lexPc = "nomatch"
  /\ \E k \in 1..Len(lexToks) :
       lexToks[k].id = IDLessThan /\ lexToks[k].n = 1

FormTables == <<unaryForms, binaryForms, associativeForms>>

\* C10: after init(), in each form table an entry y # 0 is a fixed point,
\* table[y] = y; each of UnaryForm, BinaryForm and AssociativeForm is
\* idempotent on every ID and is 0 on every ID outside the table.
C10_FormFixedPoints ==
  formsInit =>
    /\ \A t \in 1..3 : \A x \in DOMAIN FormTables[t] :
         FormTables[t][x] # 0 => FormTables[t][FormTables[t][x]] = FormTables[t][x]
    /\ \A x \in QueryIDs :
         /\ UnaryForm(UnaryForm(x)) = UnaryForm(x)
         /\ BinaryForm(BinaryForm(x)) = BinaryForm(x)
         /\ AssociativeForm(AssociativeForm(x)) = AssociativeForm(x)
         /\ x >= nBuiltInSymbolicIDs =>
              UnaryForm(x) = 0 /\ BinaryForm(x) = 0 /\ AssociativeForm(x) = 0
    /\ formRes.yy = formRes.y

\* The binary form of "+=" was asked for: it is X-binary-plus, and so is
\* the binary form of that.
C10_Witness ==
  /\ formsInit
  /\ formRes = [kind |-> "binary", x |-> IDPlusEq, y |-> IDXBinaryPlus,
                yy |-> IDXBinaryPlus]

\* The X-binary IDs, 0x48..0x5E, and the assignment IDs that carry a name.
XBinaryIDs == IDXBinaryPlus..IDXBinaryAs
NamedAssignIDs == { x \in minAssign..maxAssign : builtInsByID[x] # "" }
\* The ambiguous operators that have a binary reading: the arithmetic ones,
\* the comparisons, and "and", "or" and "as".
AmbiguousBinaryIDs ==
  (IDPlus..IDTildeSatMinus) \cup (IDNotEq..IDGreaterThan) \cup {IDAnd, IDOr, IDAs}
\* The assignment forms op= of an ambiguous operator op, and that operator.
CompoundAssignIDs == IDPlusEq..IDTildeSatMinusEq
OpOfAssign(x) == x + (IDPlus - IDPlusEq)

\* C11 as stated: the binary form table maps every named ID in 0x10..0x1F
\* and every ambiguous binary operator to a non-zero X-binary ID, and op=
\* to the same ID as op.
C11_EveryAssignHasBinaryForm ==
  /\ \A x \in NamedAssignIDs \cup AmbiguousBinaryIDs : BinaryForm(x) \in XBinaryIDs
  /\ \A x \in CompoundAssignIDs : BinaryForm(x) = BinaryForm(OpOfAssign(x))

\* C11, amended: the fourteen compound assignments op= and the ambiguous
\* binary operators map to a non-zero X-binary ID, op= to the same one as op
\* (the names of op= and op differ by the trailing "="); the plain
\* assignments "=" and "=:" are named assignment IDs with binary form 0.
C11_CompoundAssignSharesBinaryForm ==
  /\ \A x \in CompoundAssignIDs \cup AmbiguousBinaryIDs :
       /\ BinaryForm(x) \in XBinaryIDs
       /\ formsInit => IsXBinaryOp(BinaryForm(x))
  /\ \A x \in CompoundAssignIDs :
       /\ IsAssign(x)
       /\ builtInsByID[x] = builtInsByID[OpOfAssign(x)] \o "="
       /\ BinaryForm(x) = BinaryForm(OpOfAssign(x))
  /\ NamedAssignIDs = CompoundAssignIDs \cup {IDEq, IDEqColon}
  /\ BinaryForm(IDEq) = 0 /\ BinaryForm(IDEqColon) = 0
  /\ (formRes.kind = "binary" /\ formRes.x \in CompoundAssignIDs) =>
       formRes.y = BinaryForm(OpOfAssign(formRes.x)) /\ formRes.y \in XBinaryIDs

\* The binary form of "~sat-=" was asked for: it is that of "~sat-".
C11_Witness ==
  /\ formsInit
  /\ formRes.kind = "binary" /\ formRes.x = IDTildeSatMinusEq
  /\ formRes.y = IDXBinaryTildeSatMinus
  /\ BinaryForm(IDTildeSatMinus) = IDXBinaryTildeSatMinus

(***************************************************************************)
(* Claims about the ID ranges and the Map.                                 *)
(***************************************************************************)
\* The documented ranges of the built-in IDs, by kind.
PunctuationIDs == 1..(minAssign - 1)
AssignIDs == minAssign..maxAssign
AmbiguousOpIDs == minAmbiguousOp..maxAmbiguousOp
XOpIDs == minXOp..maxXOp
KeywordIDs == minKeyword..maxKeyword
TypeModifierIDs == minTypeModifier..maxTypeModifier
LiteralIDs == minBuiltInLiteral..maxBuiltInLiteral
ReservedIDs == (maxBuiltInLiteral + 1)..(minBuiltInIdent - 1)
IdentIDs == minBuiltInIdent..maxBuiltInIdent
NamedRanges ==
  <<PunctuationIDs, AssignIDs, AmbiguousOpIDs, KeywordIDs, TypeModifierIDs,
    LiteralIDs, IdentIDs>>
Named(x) == builtInsByID[x] # ""
\* How many of the four classifications hold of a classified ID.
Count(b) == IF b THEN 1 ELSE 0
Classes(r) ==
  Count(r.isAssign) + Count(r.isXOp) + Count(r.isLiteral) + Count(r.isIdent)

\* C12: every built-in ID with a name lies in the documented range of its
\* kind, ID 0 and the X-op and reserved ranges carry no name, at most one of
\* IsAssign, IsXOp, IsLiteral and IsIdent holds of any ID, and the
\* predicates that index a form table do so inside the table.
C12_RangePartition ==
  /\ \A x \in DOMAIN builtInsByID :
       Named(x) => \E k \in DOMAIN NamedRanges : x \in NamedRanges[k]
  /\ \A k, l \in DOMAIN NamedRanges :
       k # l => NamedRanges[k] \cap NamedRanges[l] = {}
  /\ \A x \in {IDInvalid} \cup XOpIDs \cup ReservedIDs : ~Named(x)
  /\ \A c \in DOMAIN squiggles :
       squiggles[c] # 0 => squiggles[c] \in PunctuationIDs /\ Named(squiggles[c])
  /\ \A c \in DOMAIN lexers : \A k \in DOMAIN lexers[c] :
       /\ Named(lexers[c][k].id)
       /\ lexers[c][k].id \in PunctuationIDs \cup AssignIDs \cup AmbiguousOpIDs
  /\ \A x \in KeywordIDs \cup TypeModifierIDs \cup IdentIDs :
       Named(x) => ~IsAssign(x) /\ ~IsXOp(x) /\ ~IsLiteral(mapByID, x)
  /\ \A x \in ClassifyIDs :
       /\ Count(IsAssign(x)) + Count(IsXOp(x)) + Count(IsLiteral(mapByID, x))
            + Count(IsIdent(mapByID, x)) <= 1
       /\ x < nBuiltInIDs =>
            /\ IsAssign(x) <=> x \in AssignIDs
            /\ IsXOp(x) <=> x \in XOpIDs
            /\ IsLiteral(mapByID, x) <=> x \in LiteralIDs
            /\ IsIdent(mapByID, x) <=> x \in IdentIDs
       /\ (minOp <= x /\ x <= maxOp) =>
            x \in DOMAIN unaryForms \cap DOMAIN binaryForms \cap DOMAIN associativeForms
  /\ mapRes.kind = "classify" =>
       /\ Classes(mapRes) <= 1
       /\ (mapRes.x < nBuiltInIDs /\ mapRes.s # "" /\ Classes(mapRes) = 0) =>
            mapRes.x \in PunctuationIDs \cup AmbiguousOpIDs \cup KeywordIDs
                           \cup TypeModifierIDs

\* The ID of "u32" was classified: it is an identifier and nothing else.
C12_Witness ==
  /\ mapRes.kind = "classify" /\ mapRes.x = IDU32 /\ mapRes.s = "u32"
  /\ mapRes.isIdent /\ ~mapRes.isAssign /\ ~mapRes.isXOp /\ ~mapRes.isLiteral

\* The IDs a Map has issued: the named built-in ones and its own.
IssuedIDs ==
  {x \in DOMAIN builtInsByID : Named(x)}
    \cup {nBuiltInIDs + k - 1 : k \in 1..Len(mapByID)}

\* C13: intern(byID(x)) = x for every issued ID x, byID(intern(s)) = s for
\* every name s, interning a name again returns the same ID, a new name of
\* the user gets an ID from 0x400 on, and no two built-in IDs share a name.
C13_InternRoundTrip ==
  /\ \A x \in IssuedIDs :
       /\ ByID(mapByID, x) # ""
       /\ InsertID(mapByName, mapByID, ByID(mapByID, x)) = x
       /\ InsertByID(mapByName, mapByID, ByID(mapByID, x)) = mapByID
  /\ \A s \in InternNames :
       ByID(InsertByID(mapByName, mapByID, s), InsertID(mapByName, mapByID, s)) = s
  /\ \A x \in ClassifyIDs \ IssuedIDs : ByID(mapByID, x) = ""
  /\ mapRes.kind = "insert" =>
       /\ mapRes.x # 0
       /\ ByID(mapByID, mapRes.x) = mapRes.s
       /\ InsertID(mapByName, mapByID, mapRes.s) = mapRes.x
       /\ mapRes.s \in UserNames => mapRes.x >= nBuiltInIDs
       /\ mapRes.s \notin UserNames => mapRes.x < nBuiltInIDs
  /\ \A x \in DOMAIN builtInsByID :
       Named(x) => builtInsByName[builtInsByID[x]] = x
  /\ \A s \in DOMAIN mapByName : mapByID[mapByName[s] - nBuiltInIDs + 1] = s

\* Two names of the user were interned, then the second one again: it kept
\* the second user ID.
C13_Witness ==
  /\ Len(mapByID) = 2
  /\ mapRes.kind = "insert" /\ mapRes.s = mapByID[2]
  /\ mapRes.x = nBuiltInIDs + 1

(***************************************************************************)
(* Claims about Expr.Eq.                                                   *)
(***************************************************************************)
Called == eqRes # "none" /\ eqN.addr # 0 /\ eqO.addr # 0
BothConst == eqN.constValue.has /\ eqO.constValue.has

\* C14 as stated: two expressions whose id0 fields differ are not Eq.
C14_DifferentID0NotEq ==
  (Called /\ eqN.id0 # eqO.id0) => eqRes = "false"

\* C14, amended: two expressions whose id0 fields differ are not Eq, unless
\* both carry a constant value: then Eq compares the two values only.
C14_DifferentID0NotEqUnlessConst ==
  (Called /\ eqN.id0 # eqO.id0) =>
    /\ ~BothConst => eqRes = "false"
    /\ BothConst => (eqRes = "true" <=> eqN.constValue.v = eqO.constValue.v)

\* x + y was compared with x - y, neither of them constant.
C14_Witness ==
  /\ eqRes = "false"
  /\ eqN.addr # 0 /\ eqO.addr # 0
  /\ eqN.id0 = IDXBinaryPlus /\ eqO.id0 = IDXBinaryMinus
  /\ ~eqN.constValue.has /\ ~eqO.constValue.has
  /\ ExprEq(eqN.lhs, eqO.lhs) /\ ExprEq(eqN.rhs, eqO.rhs)

\* The structural comparison, one conjunct per compared part.
Structural(n, o) ==
  /\ n.flags \cap flagsThatMatterForEq = o.flags \cap flagsThatMatterForEq
  /\ n.id0 = o.id0 /\ n.id1 = o.id1 /\ n.id2 = o.id2
  /\ ExprEq(n.lhs, o.lhs)
  /\ ExprEq(n.mhs, o.mhs)
  /\ IF n.id0 = IDXBinaryAs THEN TypeEq(n.rhs, o.rhs) ELSE ExprEq(n.rhs, o.rhs)
  /\ Len(n.list0) = Len(o.list0)
  /\ \A i \in 1..Len(n.list0) : i <= Len(o.list0) => ExprEq(n.list0[i], o.list0[i])

\* C15: of two distinct non-nil expressions that both carry a constant
\* value, Eq is true exactly when the values are equal, whatever their flags,
\* IDs and children; if at most one carries a constant value, Eq is the
\* structural comparison of flags, IDs, operands and argument lists.
C15_ConstThenStructural ==
  (Called /\ eqN.addr # eqO.addr) =>
    /\ BothConst => (eqRes = "true" <=> eqN.constValue.v = eqO.constValue.v)
    /\ ~BothConst => (eqRes = "true" <=> Structural(eqN, eqO))

\* 1 + 2 was compared with 2 + 1: both are folded to 3, their operands
\* differ, and they are Eq.
C15_Witness ==
  /\ eqRes = "true"
  /\ eqN.addr # 0 /\ eqO.addr # 0 /\ eqN.addr # eqO.addr
  /\ eqN.id0 = IDXBinaryPlus /\ eqO.id0 = IDXBinaryPlus
  /\ eqN.constValue = Const(3) /\ eqO.constValue = Const(3)
  /\ ~ExprEq(eqN.lhs, eqO.lhs)

(***************************************************************************)
(* Claims about the GIF decoder.                                           *)
(***************************************************************************)
\* call_sequence takes the values 0, 1 and 2 only, and the last call has
\* left it as it was or made one of the transitions 0 -> 1 (decode_config,
\* returning ok) and 1 -> 2 (decode_frame).
CallSequenceSteps ==
  /\ gif.call_sequence \in {0, 1, 2}
  /\ gifCall.call_sequence <= gif.call_sequence
  /\ gifCall.call_sequence # gif.call_sequence =>
       \/ /\ gifCall.f = "decode_config" /\ gifCall.status = "ok"
          /\ gifCall.call_sequence = 0 /\ gif.call_sequence = 1
       \/ /\ gifCall.f = "decode_frame"
          /\ gifCall.call_sequence = 1 /\ gif.call_sequence = 2
  /\ (gifCall.f = "decode_config" /\ gifCall.status = "ok") =>
       gifCall.call_sequence = 0 /\ gif.call_sequence = 1
\* The last call was out of sequence: decode_config with call_sequence >= 1
\* or decode_frame with call_sequence = 0.
OutOfSequence ==
  \/ gifCall.f = "decode_config" /\ gifCall.call_sequence >= 1
  \/ gifCall.f = "decode_frame" /\ gifCall.call_sequence = 0

\* C16 as stated: call_sequence moves by the documented transitions only,
\* and a call out of sequence returns "invalid call sequence" and leaves
\* call_sequence as it was.
C16_CallSequence ==
  /\ CallSequenceSteps
  /\ OutOfSequence =>
       /\ gifCall.status = errInvalidCallSequence
       /\ gif.call_sequence = gifCall.call_sequence

\* C16, amended: a call out of sequence leaves call_sequence as it was and
\* returns "invalid call sequence" when it gets to the body; when the header
\* returns (an earlier call has returned an error, or dst is null), it
\* returns the header's error instead.
C16_CallSequenceWhenEntered ==
  /\ CallSequenceSteps
  /\ OutOfSequence =>
       /\ gif.call_sequence = gifCall.call_sequence
       /\ gifCall.status \in GifErrors
       /\ gifCall.entered => gifCall.status = errInvalidCallSequence
       /\ gifCall.point = 0
  /\ (gifCall.f # "none" /\ ~gifCall.entered) =>
       /\ gifCall.status \in GifErrors
       /\ gif.call_sequence = gifCall.call_sequence

\* decode_config was called again after a frame had been decoded.
C16_Witness ==
  /\ gifCall.f = "decode_config" /\ gifCall.entered
  /\ gifCall.call_sequence = 2 /\ gif.call_sequence = 2
  /\ gifCall.status = errInvalidCallSequence

(***************************************************************************)
(* Claims about the loops of the generator.                                *)
(***************************************************************************)
\* C17: jumpTarget gives a loop the same number every time and distinct
\* loops distinct numbers, numbered from 0 upward in the order in which the
\* loops are first asked for; with 1,000,000 loops registered a new loop
\* fails with "too many jump targets" and the map stays as it was, an
\* already registered loop still succeeds.
C17_JumpTargets ==
  /\ \A n \in DOMAIN jumpFunk.jumpTargets.of :
       \E i \in 1..Len(jumpOrder) : jumpOrder[i] = n
  /\ \A i \in 1..Len(jumpOrder) :
       /\ \A j \in 1..Len(jumpOrder) : jumpOrder[i] = jumpOrder[j] => i = j
       /\ jumpOrder[i] \in DOMAIN jumpFunk.jumpTargets.of =>
            jumpFunk.jumpTargets.of[jumpOrder[i]]
              = jumpFunk.jumpTargets.earlier + i - 1
  /\ LenJumpTargets(jumpFunk) <= maxJumpTargets
  /\ (jumpRes.loop # 0 /\ jumpRes.err = "") =>
       /\ jumpRes.loop \in DOMAIN jumpFunk.jumpTargets.of
       /\ jumpRes.jt = jumpFunk.jumpTargets.of[jumpRes.loop]
       /\ jumpFunk.bBody[Len(jumpFunk.bBody)]
            = TokNX("goto label", jumpRes.jt, jumpRes.kw)
       /\ jumpRes.isNew => jumpRes.jt = LenJumpTargets(jumpFunk) - 1
  /\ jumpRes.err # "" =>
       /\ jumpRes.err = "too many jump targets"
       /\ jumpRes.isNew
       /\ LenJumpTargets(jumpFunk) = maxJumpTargets
       /\ jumpRes.loop \notin DOMAIN jumpFunk.jumpTargets.of
       /\ Cardinality(DOMAIN jumpFunk.jumpTargets.of) = Len(jumpOrder) - 1
  /\ (jumpRes.loop # 0 /\ ~jumpRes.isNew) => jumpRes.err = ""
  /\ (jumpRes.isNew /\ jumpRes.err = "") =>
       Cardinality(DOMAIN jumpFunk.jumpTargets.of) = Len(jumpOrder)

\* Two loops took the last two numbers, and a jump to a third loop failed.
C17_Witness ==
  /\ jumpRes.err = "too many jump targets"
  /\ Cardinality(DOMAIN jumpFunk.jumpTargets.of) = 2
  /\ LenJumpTargets(jumpFunk) = maxJumpTargets
  /\ Len(jumpFunk.bBody) = 2

(***************************************************************************)
(* Claims about the code generator.  The syntax tree of the body is read   *)
(* here by operators of its own, apart from the generator's.               *)
(***************************************************************************)
RECURSIVE SumSeq(_)
SumSeq(s) == IF s = <<>> THEN 0 ELSE Head(s) + SumSeq(Tail(s))

RECURSIVE Concat(_)
Concat(ss) == IF ss = <<>> THEN <<>> ELSE Head(ss) \o Concat(Tail(ss))

\* The call sites of expression e that are not proven not to suspend.
RECURSIVE UnprovenSites(_)
UnprovenSites(e) ==
  (IF e.k = "call" /\ ~e.proven THEN 1 ELSE 0)
    + SumSeq([i \in 1..Len(e.subs) |-> UnprovenSites(e.subs[i])])

\* Some call of e, reached without passing through another call, is not
\* proven not to suspend.
RECURSIVE MayReach(_)
MayReach(e) ==
  IF e.k = "call" THEN ~e.proven
  ELSE \E i \in 1..Len(e.subs) : MayReach(e.subs[i])

\* The user-defined call sites of e in evaluation order, the arguments of a
\* call left out.
RECURSIVE UserSites(_)
UserSites(e) ==
  IF e.k = "call" THEN (IF e.builtin = "" THEN <<e>> ELSE <<>>)
  ELSE Concat([i \in 1..Len(e.subs) |-> UserSites(e.subs[i])])

\* The expressions of statement s that are lowered, in the order of lowering.
RECURSIVE StmtExprs(_)
StmtExprs(s) ==
  CASE s.k = "expr" -> <<s.e>>
    [] s.k = "assign" -> <<Var, s.e>>
    [] s.k = "var" -> IF s.hasE THEN <<s.e>> ELSE <<>>
    [] s.k = "if" ->
         <<s.e>> \o Concat([i \in 1..Len(s.body) |-> StmtExprs(s.body[i])])
                \o Concat([i \in 1..Len(s.els) |-> StmtExprs(s.els[i])])
                \o Concat([i \in 1..Len(s.elif) |-> StmtExprs(s.elif[i])])
    [] OTHER -> <<>>

BodyExprs == Concat([i \in 1..Len(astBody) |-> StmtExprs(astBody[i])])

\* The suspension points of buffer b that stand directly before a call's code.
PointsBeforeCalls(b) ==
  Cardinality({ i \in 1..(Len(b) - 1) :
                  b[i].t = "SUSPENSION_POINT" /\ b[i + 1].t = "save_derived_vars" })

Lowered == genPc \in {"body", "done", "written"} /\ gErr = ""

U32Add(x, d) ==
  IF x[2] + d <= 65535 THEN <<x[1], x[2] + d>> ELSE <<x[1] + 1, x[2] + d - 65536>>

\* C2: the numbers written by successive writeCoroSuspPoint calls are the
\* start of the counter plus 1, 2, ..., n in the order of writing (1, 2, ...,
\* n from the start 0 of a function), never 0 and never 0xFFFFFFFF; the call
\* that would write 0xFFFFFFFF fails with "too many coroutine suspension
\* points required" and writes nothing.
C2_DensePoints ==
  LET b == coroFunk.bBody
      n == Len(b)
  IN  /\ \A i \in 1..n :
           /\ b[i].p = U32Add(coroStart, i)
           /\ b[i].p # Z32
           /\ b[i].p # maxCoroSuspPoint
           /\ coroStart = Z32 => b[i].p = <<0, i>>
      /\ IF Failed(coroFunk)
         THEN /\ coroFunk.err = "too many coroutine suspension points required"
              /\ U32Add(coroStart, n + 1) = maxCoroSuspPoint
              /\ coroFunk.coroSuspPoint = maxCoroSuspPoint
         ELSE coroFunk.coroSuspPoint = U32Add(coroStart, n)

\* The counter reached its limit after two points were written.
C2_Witness ==
  /\ Failed(coroFunk)
  /\ Len(coroFunk.bBody) = 2
  /\ coroFunk.bBody[2].p = U32(65535, 65534)

RECURSIVE Positions(_, _, _)
Positions(b, t, i) ==
  IF i > Len(b) THEN <<>>
  ELSE (IF b[i].t = t THEN <<i>> ELSE <<>>) \o Positions(b, t, i + 1)

\* The temporaries declared in buffer b before position i: one for each try,
\* two for each built-in read.
TempsBefore(b, i) ==
  Cardinality({ m \in 1..(i - 1) : b[m].t = "temp=" })
    + 2 * Cardinality({ m \in 1..(i - 1) : b[m].t = "decl_temp" })

BodyUserSites == Concat([i \in 1..Len(BodyExprs) |-> UserSites(BodyExprs[i])])

\* C4: in a lowered body the code of the user-defined calls is, call by call
\* in evaluation order: outside try, save derived vars, status = <call>;,
\* reload derived vars, if (status) { goto suspend; }; inside try, save,
\* t<k> = <call>; with k the number of temporaries declared so far, reload,
\* and no branch to suspend.
C4_CallSequence ==
  LET b == currFunk.bBody
      calls == Positions(b, "call", 1)
      sites == BodyUserSites
  IN  Lowered =>
        /\ Len(calls) = Len(sites)
        /\ \A m \in 1..Len(calls) :
             LET j == calls[m]
                 s == sites[m]
             IN  /\ j > 2
                 /\ j < Len(b)
                 /\ b[j] = TokX("call", s.name)
                 /\ b[j - 2] = TokX("save_derived_vars", s.name)
                 /\ b[j + 1] = TokX("load_derived_vars", s.name)
                 /\ IF s.try
                    THEN /\ b[j - 1] = TokN("temp=", TempsBefore(b, j - 1))
                         /\ j + 2 <= Len(b) => b[j + 2].t # "if_status_goto_suspend"
                    ELSE /\ b[j - 1] = Tok("status=")
                         /\ j + 2 <= Len(b)
                         /\ b[j + 2] = Tok("if_status_goto_suspend")
        /\ Len(Positions(b, "if_status_goto_suspend", 1))
             = Cardinality({ m \in 1..Len(sites) : ~sites[m].try })

\* A body with a try after a built-in read, and a call outside try, was
\* lowered: the try got the temporary t2.
C4_Witness ==
  /\ Lowered
  /\ astBody = <<AssignStmt(Op(Call("f", TRUE, FALSE), ReadU32LE)),
                 IfStmt(Call("f", TRUE, FALSE), <<>>,
                        <<ExprStmt(Call("g", FALSE, FALSE))>>, <<>>)>>
  /\ \E i \in 1..Len(currFunk.bBody) : currFunk.bBody[i] = TokN("temp=", 3)
  /\ \E i \in 1..Len(currFunk.bBody) : currFunk.bBody[i] = Tok("if_status_goto_suspend")

Returns(b) == SelectSeq(b, LAMBDA tok : tok.t = "return")

\* C6, as the specification states it: in the text of a function that may
\* suspend, every return statement stands after the exit label.
C6_ReturnOnlyAfterLabels ==
  (genPc = "written" /\ currFunk.suspendible) =>
    \A i \in 1..Len(out) :
      out[i].t = "return" =>
        \E j \in 1..(i - 1) : out[j] = TokX("label", "exit")

\* C6, as the code has it: the text of a function that may suspend holds no
\* return statement in its body, body-resume and body-suspend parts, and one,
\* return status, after the exit label; its header holds the guards of a
\* public method, which return ERROR_BAD_RECEIVER, the stored status and,
\* with pointer arguments, ERROR_BAD_ARGUMENT, before any label.
C6_ReturnsOfSuspendible ==
  (genPc = "written" /\ currFunk.suspendible) =>
    LET n == currFunk.astFunc
        guards == IF n.public /\ n.receiver
                  THEN <<TokX("return", "ERROR_BAD_RECEIVER"), TokX("return", "self.status")>>
                  ELSE <<>>
        checks == IF n.public /\ \E i \in 1..Len(n.in) : n.in[i].typ = "ptr"
                  THEN <<TokX("return", "ERROR_BAD_ARGUMENT")>>
                  ELSE <<>>
        exits == Positions(out, "label", 1)
    IN  /\ Returns(out) = guards \o checks \o <<TokX("return", "status")>>
        /\ Returns(currFunk.bHeader) = guards \o checks
        /\ Returns(currFunk.bBody) = <<>>
        /\ \A i \in 1..Len(out) :
             out[i].t = "return" =>
               \/ i <= 2 + Len(currFunk.bHeader)
               \/ \E j \in 1..(i - 1) : out[j] = TokX("label", "exit")

\* The text of the public method decode, with return error in its body, was
\* written.
C6_Witness ==
  /\ genPc = "written"
  /\ currFunk.astFunc.name = "decode"
  /\ astBody = <<RetStmt("yield", "suspension"), RetStmt("return", "error")>>
  /\ Len(Returns(out)) = 4

C5_ErrorIsAbsorbing ==
  [][ nCalls' = nCalls + 1 =>
        /\ (lastCall'.suspendible /\ lastCall'.selfOK /\ lastCall'.ret < 0) =>
             self'.status = lastCall'.ret
        /\ (self.status < 0 /\ lastCall'.selfOK) =>
             /\ ~lastCall'.bodyRan
             /\ self' = self
             /\ lastCall'.suspendible => lastCall'.ret = self.status
    ]_vars

\* decode failed in its body after a resumption, and the call after it
\* returned the stored error from the header.
C5_Witness ==
  /\ nCalls = 3
  /\ self.magic
  /\ self.status = -4
  /\ lastCall.ret = -4
  /\ ~lastCall.bodyRan
  /\ lastCall.selfOK
(***************************************************************************)
(* Claims about the text of while loops and io_binds.                      *)
(***************************************************************************)
\* The statement written last and the text it added to the body.
LastStmt == loopBody[Len(loopBody)]
LastText == SubSeq(loopFunk.bBody, loopFrom, Len(loopFunk.bBody))
Wrote(kind) == loopBody # <<>> /\ ~Failed(loopFunk) /\ LastStmt.k = kind

\* The while loops of a body, the outer ones first.
RECURSIVE WhilesIn(_)
WhilesIn(body) ==
  IF body = <<>> THEN <<>>
  ELSE (CASE Head(body).k = "while" -> <<Head(body)>> \o WhilesIn(Head(body).body)
          [] Head(body).k = "iobind" -> WhilesIn(Head(body).body)
          [] Head(body).k = "if" ->
               WhilesIn(Head(body).body) \o WhilesIn(Head(body).els)
                 \o WhilesIn(Head(body).elif)
          [] OTHER -> <<>>) \o WhilesIn(Tail(body))

IsLabel(tok, kw) == tok.t = "label" /\ tok.x = kw
IsGoto(tok) == tok.t = "goto label"
LabelsOf(text, jt, kw) ==
  { i \in 1..Len(text) : text[i] = TokNX("label", jt, kw) }

\* C18: a while loop's text has label_<k>_continue immediately before the
\* while header exactly when the loop has a continue, and label_<k>_break
\* immediately after the closing brace exactly when it has a break; k is the
\* loop's jump target number, the same in every goto of a jump that names the
\* loop, whether the goto is written before or after the label.
C18_WhileLabels ==
  Wrote("while") =>
    LET text == LastText
        of == loopFunk.jumpTargets.of
        whiles == WhilesIn(<<LastStmt>>)
        jumps == JumpsIn(<<LastStmt>>)
        gotos == SelectSeq(text, IsGoto)
    IN  /\ IsLabel(text[1], "continue") <=> LastStmt.hasContinue
        /\ ~LastStmt.hasContinue => text[1] = Tok("while")
        /\ IsLabel(text[Len(text)], "break") <=> LastStmt.hasBreak
        /\ ~LastStmt.hasBreak => text[Len(text)] = Tok("}")
        /\ \A i \in 1..Len(text) :
             /\ IsLabel(text[i], "continue") =>
                  i < Len(text) /\ text[i + 1] = Tok("while")
             /\ IsLabel(text[i], "break") => i > 1 /\ text[i - 1] = Tok("}")
             /\ text[i].t = "label" => text[i].x \in {"continue", "break"}
        /\ \A i \in 1..Len(whiles) :
             LET w == whiles[i]
             IN  /\ (w.hasContinue \/ w.hasBreak) => w.loop \in DOMAIN of
                 /\ w.hasContinue =>
                      Cardinality(LabelsOf(text, of[w.loop], "continue")) = 1
                 /\ w.hasBreak =>
                      Cardinality(LabelsOf(text, of[w.loop], "break")) = 1
        /\ Cardinality({ i \in 1..Len(text) : text[i].t = "label" })
             = Cardinality({ i \in 1..Len(whiles) : whiles[i].hasContinue })
                 + Cardinality({ i \in 1..Len(whiles) : whiles[i].hasBreak })
        /\ Len(gotos) = Len(jumps)
        /\ \A i \in 1..Len(jumps) :
             gotos[i] = TokNX("goto label", of[jumps[i].loop], jumps[i].kw)

\* A second statement is a loop with a continue and a break whose inner loop
\* continues the outer one: the continue label precedes its goto, the break
\* gotos precede their labels, and the numbers go on from the first
\* statement's.
C18_Witness ==
  /\ Wrote("while") /\ Len(loopBody) = 2
  /\ loopBody[1].k = "while" /\ loopBody[1].hasBreak
  /\ LastStmt.hasContinue /\ LastStmt.hasBreak
  /\ Len(WhilesIn(<<LastStmt>>)) = 2
  /\ WhilesIn(<<LastStmt>>)[2].hasBreak
  /\ LastText[1] = TokNX("label", 1, "continue")
  /\ LastText[Len(LastText)] = TokNX("label", 1, "break")
  /\ \E i \in 1..Len(LastText) : LastText[i] = TokNX("goto label", 1, "continue")
  /\ \E i \in 1..Len(LastText) : LastText[i] = TokNX("label", 2, "break")

\* The nesting depths of the io_binds of a body, in the order of the source:
\* 0 for an io_bind that is inside no other.
RECURSIVE IOBindDepths(_, _)
IOBindDepths(body, d) ==
  IF body = <<>> THEN <<>>
  ELSE (CASE Head(body).k = "iobind" -> <<d>> \o IOBindDepths(Head(body).body, d + 1)
          [] Head(body).k = "while" -> IOBindDepths(Head(body).body, d)
          [] Head(body).k = "if" ->
               IOBindDepths(Head(body).body, d) \o IOBindDepths(Head(body).els, d)
                 \o IOBindDepths(Head(body).elif, d)
          [] OTHER -> <<>>) \o IOBindDepths(Tail(body), d)

IsSave(tok) == tok.t \in {"save io_reader", "save io_writer"}
IsShadow(tok) ==
  tok.t \in {"save io_reader", "save io_writer", "save ioptr", "save iobounds1",
             "restore", "restore ioptr", "restore iobounds1"}

\* The numbers in the shadow names of the io_binds of a text, an io_bind
\* taken where its first save follows its opening brace.
ShadowNums(text) ==
  LET at == { i \in 2..Len(text) : IsSave(text[i]) /\ text[i - 1] = Tok("{") }
      RECURSIVE From(_)
      From(i) == IF i > Len(text) THEN <<>>
                 ELSE (IF i \in at THEN <<text[i].n>> ELSE <<>>) \o From(i + 1)
  IN  From(1)

\* The shadows of field f under the number num, as saved and as restored.
SaveToks(f, num) ==
  <<TokNX(IF f.writer THEN "save io_writer" ELSE "save io_reader", num, PrefixedName(f))>>
    \o (IF f.local THEN <<TokNX("save ioptr", num, PrefixedName(f)),
                          TokNX("save iobounds1", num, PrefixedName(f))>>
        ELSE <<>>)
RestoreToks(f, num) ==
  <<TokNX("restore", num, PrefixedName(f))>>
    \o (IF f.local THEN <<TokNX("restore ioptr", num, PrefixedName(f)),
                          TokNX("restore iobounds1", num, PrefixedName(f))>>
        ELSE <<>>)

\* The text of an io_bind opens a block, saves each field in field order,
\* the ioptr and iobounds1 of a local only, under one number, and after the
\* body restores the same variables from the same shadows in reverse field
\* order and closes the block.
SavesThenRestores ==
  Wrote("iobind") =>
    LET text == LastText
        fs == LastStmt.inFields
        num == text[2].n
        saves == Concat([i \in 1..Len(fs) |-> SaveToks(fs[i], num)])
        restores == Concat([i \in 1..Len(fs) |-> RestoreToks(fs[Len(fs) + 1 - i], num)])
    IN  /\ text[1] = Tok("{") /\ text[Len(text)] = Tok("}")
        /\ Len(text) >= 2 + Len(saves) + Len(restores)
        /\ SubSeq(text, 2, 1 + Len(saves)) = saves
        /\ SubSeq(text, Len(text) - Len(restores), Len(text) - 1) = restores
        /\ Cardinality({ i \in 1..Len(text) : IsShadow(text[i]) /\ text[i].n = num })
             = Len(saves) + Len(restores)

Statuses == {-2, -1, 0, 1, 2}
ValuesOf(n) ==
  CASE ~n.hasE -> {0}
    [] n.val = "error" -> { v \in Statuses : v < 0 }
    [] OTHER -> Statuses

\* Where the text of a lowered return leaves the body, and with which
\* status, when the value assigned to status is v.
RECURSIVE Leaves(_, _)
Leaves(text, v) ==
  IF text = <<>> THEN [at |-> "next", status |-> v]
  ELSE IF Head(text).t = "goto" THEN [at |-> Head(text).x, status |-> v]
  ELSE IF Head(text) = Tok("if_status_zero_goto_ok_else_no_suspension")
  THEN IF v = 0 THEN [at |-> "ok", status |-> 0]
       ELSE Leaves(Tail(text), IF v > 0 THEN -1 ELSE v)
  ELSE Leaves(Tail(text), v)

RECURSIVE RoundsOf(_)
RoundsOf(n) ==
  LET l == SmallPowerOf2Value(n.length)
      u == SmallPowerOf2Value(n.unroll)
  IN  <<[length |-> l, unroll |-> u, body |-> n.body]>>
        \o (IF u # 1 THEN <<[length |-> l, unroll |-> 1, body |-> n.body]>> ELSE <<>>)
        \o (IF n.elseIterate = <<>> THEN <<>> ELSE RoundsOf(n.elseIterate[1]))

IndicesOf(text, t) ==
  LET RECURSIVE From(_)
      From(i) == IF i > Len(text) THEN <<>>
                 ELSE (IF text[i].t = t THEN <<i>> ELSE <<>>) \o From(i + 1)
  IN  From(1)

RECURSIVE Copies(_, _)
Copies(text, u) == IF u = 0 THEN <<>> ELSE text \o Copies(text, u - 1)

\* C21: the text of an iterate over one variable holds, for each clause of
\* length L and unroll U, a round whose end pointer is
\* base + (len / (L*U)) * (L*U) and whose loop holds U copies of the body,
\* each followed by the advance of the view pointer by L; a round of unroll
\* U # 1 is followed by a round of the same L and unroll 1; the rounds are
\* numbered from 0 upward through the else_iterate chain; an iterate without
\* variables writes nothing and one over more than one variable is an error.
C21_IterateRounds ==
  (loopBody # <<>> /\ LastStmt.k = "iterate") =>
    LET n == LastStmt
        text == LastText
        rounds == RoundsOf(n)
        heads == IndicesOf(text, "while v.ptr<i_end")
    IN  /\ Len(n.variables) = 0 => text = <<>> /\ ~Failed(loopFunk)
        /\ Len(n.variables) > 1 =>
             /\ text = <<>>
             /\ loopFunk.err = "TODO: iterate over more than one variable"
        /\ (Len(n.variables) = 1 /\ ~Failed(loopFunk)) =>
             LET name == n.variables[1]
             IN  /\ SubSeq(text, 1, 2) = <<Tok("{"), TokX("i_slice=", name)>>
                 /\ text[4] = TokX("v=i_slice", name)
                 /\ text[Len(text)] = Tok("}")
                 /\ Len(heads) = Len(rounds)
                 /\ heads # <<>> /\ heads[1] = 8
                 /\ \A t \in {"v.len=", "i_end=", "i_slice.ptr+(i_slice.len/m)*m"} :
                      Len(IndicesOf(text, t)) = Len(rounds)
                 /\ \A r \in 1..Len(rounds) :
                      LET h == heads[r]
                          e == IF r < Len(rounds) THEN heads[r + 1] - 4 ELSE Len(text) - 1
                          adv == TokNX("v.ptr+=", rounds[r].length, name)
                          first == CHOOSE i \in (h + 1)..e :
                                     /\ text[i].t = "v.ptr+="
                                     /\ \A j \in (h + 1)..(i - 1) : text[j].t # "v.ptr+="
                          copy == SubSeq(text, h + 1, first)
                      IN  /\ SubSeq(text, h - 3, h)
                               = <<TokNX("v.len=", rounds[r].length, name),
                                   TokNX("i_end=", r - 1, name),
                                   TokNX("i_slice.ptr+(i_slice.len/m)*m",
                                         rounds[r].length * rounds[r].unroll, name),
                                   TokNX("while v.ptr<i_end", r - 1, name)>>
                          /\ copy[Len(copy)] = adv
                          /\ (Len(copy) = 1) <=> (rounds[r].body = <<>>)
                          /\ SubSeq(text, h + 1, e)
                               = Copies(copy, rounds[r].unroll) \o <<Tok("}")>>
                          /\ (rounds[r].unroll # 1) =>
                               /\ r < Len(rounds)
                               /\ rounds[r + 1].length = rounds[r].length
                               /\ rounds[r + 1].unroll = 1

\* iterate (x in s) length 8 unroll 2 with an else_iterate was written: three
\* rounds, the first with an end pointer at len / 16 * 16 and two advances
\* by 8.
C21_Witness ==
  /\ loopBody # <<>> /\ ~Failed(loopFunk)
  /\ LastStmt.k = "iterate" /\ LastStmt.elseIterate # <<>>
  /\ LastStmt.length = ID8 /\ LastStmt.unroll = ID2
  /\ Len(IndicesOf(LastText, "i_end=")) = 3
  /\ \E i \in 1..Len(LastText) : LastText[i] = TokNX("i_slice.ptr+(i_slice.len/m)*m", 16, "x")
  /\ Len(SelectSeq(LastText, LAMBDA tok : tok = TokNX("v.ptr+=", 8, "x"))) = 3
  /\ \E i \in 1..Len(LastText) : LastText[i] = TokNX("while v.ptr<i_end", 2, "x")

(***************************************************************************)
(* Claims about the text of a read of N bits.                              *)
(***************************************************************************)
Reading == readRun.pc \notin {"idle", "error"}

\* C22: both paths of a read of N bits from the reader called name test and
\* advance the cursor of that reader: the fast path is taken exactly when
\* that reader holds at least N/8 bytes and takes exactly N/8 bytes from it;
\* the slow path jumps to short_read_<name> when that reader's cursor is at
\* its bound; no other reader is touched, whatever the name.
C22_SameReader ==
  Reading =>
    LET name == readRun.name
        n == readRun.size \div 8
    IN  /\ \A i \in 1..Len(readRun.text) :
             readRun.text[i].t \in {"if_available", "temp=load_le", "temp=load_be",
                                    "advance", "if_at_bound_goto_short_read",
                                    "scratch_accumulate_le", "scratch_accumulate_be"}
               => readRun.text[i].x = name
        /\ readRun.path = "fast" =>
             readRun.availAtStart[name] >= n /\ Len(readRun.taken[name]) = n
        /\ readRun.path = "slow" => readRun.availAtStart[name] < n
        /\ \A r \in Readers \ {name} : readRun.taken[r] = <<>>
        /\ readRun.pc \in {"short_read_src", "short_read_r"} =>
             /\ readRun.pc = "short_read_" \o name
             /\ readRun.avail[name] = 0

\* C26: for N in 16, 24, ..., 64 and both endiannesses, however the bytes
\* arrive across suspensions, the byte-at-a-time path ends with the result
\* temporary equal to the N-bit load of the bytes it took, N/8 of them, from
\* the reader it was called for; on the way the count kept in the top byte
\* (little-endian) or the low byte (big-endian) of the scratch is 8 times the
\* number of bytes taken and the rest of the scratch holds those bytes.
C26_Accumulator ==
  (Reading /\ readRun.path = "slow") =>
    LET name == readRun.name
        got == readRun.taken[name]
        n == readRun.size \div 8
    IN  /\ readRun.size \in { 8 * i : i \in 2..8 }
        /\ readRun.endianness \in {"le", "be"}
        /\ Len(got) <= n
        /\ \A r \in Readers \ {name} : readRun.taken[r] = <<>>
        /\ readRun.pc = "done" =>
             /\ Len(got) = n
             /\ readRun.temp1 = Load(got, readRun.endianness)
             /\ readRun.t0 = readRun.size - 8
        /\ readRun.pc # "done" =>
             /\ Len(got) < n
             /\ readRun.t0 = 8 * Len(got)
             /\ readRun.endianness = "le" =>
                  /\ Nat8(Shr(readRun.scratch, 56)) = 8 * Len(got)
                  /\ Shr(Shl(readRun.scratch, 8), 8) = Load(got, "le")
             /\ readRun.endianness = "be" =>
                  /\ Nat8(AndFF(readRun.scratch)) = 8 * Len(got)
                  /\ Shl(Shr(readRun.scratch, 8), 8) = Shl(Load(got, "be"), 64 - 8 * Len(got))

\* A big-endian read of 64 bits of bytes with their top bits set ended after
\* three suspensions.
C26_Witness ==
  /\ readRun.pc = "done" /\ readRun.path = "slow"
  /\ readRun.size = 64 /\ readRun.endianness = "be" /\ readRun.contents = "down"
  /\ readRun.suspensions >= 3
  /\ Len(readRun.taken[readRun.name]) = 8
  /\ readRun.temp1 = Load(<<255, 254, 253, 252, 251, 250, 249, 248>>, "be")
  /\ readRun.temp1[64] = 1 /\ readRun.temp1[1] = 0


(***************************************************************************)
(* Claims about the argument checks of a public function.                  *)
(***************************************************************************)
\* The bounds of the base type of argument o, "nil" where it has none.
NaturalBounds(o) ==
  IF o.qid[1] = IDBase /\ o.qid[2] \in DOMAIN numTypeBounds
  THEN numTypeBounds[o.qid[2]] ELSE <<"nil", "nil">>

\* The written checks hold a check of the argument named a by op against b.
HasCheck(op, a, b) ==
  \E j \in 1..Len(argRun.checks) : argRun.checks[j] = [op |-> op, a |-> a, b |-> b]
ChecksOn(op, a) ==
  { j \in 1..Len(argRun.checks) : argRun.checks[j].op = op /\ argRun.checks[j].a = a }

HasIf == \E i \in 1..Len(argRun.text) : argRun.text[i].t = "if_bad_argument{"
PublicWritten == argRun.pc # "idle" /\ argRun.err = "" /\ argRun.func.public

\* Every pointer has a null check; a refined number with constant bounds has
\* a lower check iff lo is not the natural minimum and an upper check iff hi
\* is not the natural maximum; another argument has none; no check, no if.
C23_ChecksEmitted ==
  PublicWritten =>
    /\ \A i \in 1..Len(argRun.func.in) :
         LET o == argRun.func.in[i]
         IN  /\ o.typ = "ptr" => HasCheck("!", o.name, "")
             /\ (o.typ # "ptr" /\ o.refined /\ o.bounds[1] # "nil" /\ o.bounds[2] # "nil") =>
                  /\ HasCheck("<", o.name, o.bounds[1]) <=> o.bounds[1] # NaturalBounds(o)[1]
                  /\ HasCheck(">", o.name, o.bounds[2]) <=> o.bounds[2] # NaturalBounds(o)[2]
                  /\ Cardinality(ChecksOn("<", o.name)) <= 1
                  /\ Cardinality(ChecksOn(">", o.name)) <= 1
                  /\ ChecksOn("!", o.name) = {}
             /\ (o.typ # "ptr" /\ ~o.refined) =>
                  \A j \in 1..Len(argRun.checks) : argRun.checks[j].a # o.name
    /\ argRun.checks = <<>> <=> ~HasIf

\* A call one of whose arguments fails a written check.
FailingCall ==
  /\ PublicWritten
  /\ argRun.pc = "called"
  /\ \E j \in 1..Len(argRun.checks) :
       CheckFails(argRun.func, argRun.args, argRun.checks[j])

\* The failing call returns ERROR_BAD_ARGUMENT, stored in the receiver for a
\* public suspendible function, before a local is declared.
C23_FailingCheckReturns ==
  FailingCall =>
    /\ argRun.returned
    /\ argRun.ret = StatusValue(0, "ERROR_BAD_ARGUMENT")
    /\ argRun.func.suspendible => argRun.self = StatusValue(0, "ERROR_BAD_ARGUMENT")
    /\ argRun.at < Find(argRun.text, Tok("decl_locals"), 1)
    /\ argRun.at < Find(argRun.text, TokX("decl_status=", "STATUS_OK"), 1)

\* C23: the argument checks of a public function are a null check of every
\* pointer and the bound checks of every refined number that its base type
\* does not already give, nothing else, no if when there is no check; and a
\* failing check returns ERROR_BAD_ARGUMENT before a local is declared.
C23_ArgChecks == C23_ChecksEmitted /\ C23_FailingCheckReturns

\* A failing call of a public function that is not suspendible.
C23_Witness == FailingCall /\ ~argRun.func.suspendible /\ argRun.func.receiver

(***************************************************************************)
(* Claims about the labels of a written function.                          *)
(***************************************************************************)
\* The positions of text that jump to label l: a goto, and the
\* `if (status) { goto suspend; }` after a call that is no try.
GotosTo(text, l) ==
  { i \in 1..Len(text) :
      \/ text[i] = TokX("goto", l)
      \/ l = "suspend" /\ text[i].t = "if_status_goto_suspend" }
LabelsNamed(text, l) == { i \in 1..Len(text) : text[i] = TokX("label", l) }
TokensOf(text, t) == { i \in 1..Len(text) : text[i].t = t }

\* C24: in the text of a written function every goto to ok, suspend or exit
\* has its label defined exactly once, and the switch that the body-resume
\* phase opens is closed exactly when it was opened.  It is stated of the
\* suspendible functions: only they may call a suspendible function.
C24_GotoLabels ==
  (genPc = "written" /\ currFunk.suspendible) =>
    /\ \A l \in {"ok", "suspend", "exit"} :
         GotosTo(out, l) # {} => Cardinality(LabelsNamed(out, l)) = 1
    /\ Cardinality(TokensOf(out, "switch_coro_susp_point{"))
         = Cardinality(TokensOf(out, "}switch"))

\* The switch is balanced, and the labels ok and exit are defined once.
C24_SwitchAndOkExit ==
  genPc = "written" =>
    /\ \A l \in {"ok", "exit"} :
         GotosTo(out, l) # {} => Cardinality(LabelsNamed(out, l)) = 1
    /\ Cardinality(TokensOf(out, "switch_coro_susp_point{"))
         = Cardinality(TokensOf(out, "}switch"))

\* A suspendible function is written whose counter of suspension points
\* stayed 0 and whose body calls a suspendible function outside a try.
C24_Witness ==
  /\ genPc = "written"
  /\ currFunk.suspendible
  /\ currFunk.coroSuspPoint = Z32
  /\ GotosTo(out, "suspend") # {}

(***************************************************************************)
(* Claims about the labels of loops.                                       *)
(***************************************************************************)
LoopLabels(text) == { i \in 1..Len(text) : text[i].t = "label" }
LoopGotos(text) == { i \in 1..Len(text) : IsGoto(text[i]) }

\* Every label of the body is defined once.
C25_LabelsOnce ==
  ~Failed(loopFunk) =>
    \A i, j \in LoopLabels(loopFunk.bBody) :
      loopFunk.bBody[i] = loopFunk.bBody[j] => i = j

\* Every goto of the body has its label in the body.
C25_GotosDefined ==
  ~Failed(loopFunk) =>
    \A i \in LoopGotos(loopFunk.bBody) :
      LabelsOf(loopFunk.bBody, loopFunk.bBody[i].n, loopFunk.bBody[i].x) # {}

\* C25: in the body written for a function, each label_<k>_continue and
\* label_<k>_break is defined at most once and every goto to one of them has
\* its label defined, for while loops and iterate loops, and for loops whose
\* body an iterate writes several times.
C25_LoopLabels == C25_LabelsOnce /\ C25_GotosDefined

\* An iterate is written whose body breaks out of it.
C25_Witness ==
  /\ Wrote("iterate")
  /\ LastStmt.body = <<JumpStmt("break", LastStmt.loop)>>
  /\ LoopGotos(LastText) # {}

\* An iterate is written that unrolls a while loop with a break.
C25_WitnessUnrolled ==
  /\ Wrote("iterate")
  /\ LastStmt.body # <<>>
  /\ LastStmt.body[1].k = "while"
  /\ LastStmt.body[1].hasBreak
  /\ Cardinality(LoopLabels(LastText)) > 1

(***************************************************************************)
(* Claims about the text of an iterate at run time.                        *)
(***************************************************************************)
\* The lengths of the clauses of the chain that starts at iterate n.
RECURSIVE ChainLengths(_)
ChainLengths(n) ==
  {SmallPowerOf2Value(n.length)}
    \cup (IF n.elseIterate = <<>> THEN {} ELSE ChainLengths(n.elseIterate[1]))
MinLength(n) == CHOOSE l \in ChainLengths(n) : \A m \in ChainLengths(n) : l <= m

\* Every view the body has seen lies inside the slice; the views are
\* consecutive from the base; and when the text has run to its end they are
\* the complete chunks of the slice, each once.
IterateViews ==
  iterRun.pc # "idle" =>
    LET views == iterRun.views
        l == MinLength(iterRun.node)
    IN  /\ \A i \in 1..Len(views) :
             /\ views[i][1] >= 0
             /\ views[i][2] >= 1
             /\ views[i][1] + views[i][2] <= iterRun.len
             /\ views[i][1] = (IF i = 1 THEN 0 ELSE views[i - 1][1] + views[i - 1][2])
        /\ iterRun.pc = "done" =>
             /\ iterRun.ptr = (iterRun.len \div l) * l
             /\ views # <<>> => iterRun.ptr = views[Len(views)][1] + views[Len(views)][2]
             /\ ChainLengths(iterRun.node) = {l} =>
                  /\ Len(views) = iterRun.len \div l
                  /\ \A i \in 1..Len(views) : views[i] = <<(i - 1) * l, l>>

\* C27: in the text of an iterate whose lengths and unrolls are powers of
\* two, every execution of the body sees a view inside the slice, the views
\* are consecutive from the base and do not overlap, each complete chunk is
\* seen once, and the loops of the text come to their end.
C27_IterateViews == []IterateViews /\ ((iterRun.pc = "run") ~> (iterRun.pc = "done"))

\* The unrolled round has run once and its second round once, a chunk of the
\* slice is left over, and the rising else clause has seen nothing.
C27_Witness ==
  /\ iterRun.pc = "done"
  /\ iterRun.len = 26
  /\ iterRun.views = << <<0, 8>>, <<8, 8>>, <<16, 8>> >>
  /\ iterRun.node.unroll = ID2 /\ iterRun.node.elseIterate = <<>>

(***************************************************************************)
(* Claims about copy_to_image_buffer.                                      *)
(***************************************************************************)
\* At every turn of the loop ri <= wi <= 4096; the inconsistency error is
\* never returned; a call that returns ok leaves both indexes 0.
CopyIndexesInOrder ==
  /\ (copyRun.pc # "idle" /\ copyRun.entered) =>
       /\ copyRun.ri <= copyRun.wi
       /\ copyRun.wi <= uncompressedLen
  /\ copyRun.pc = "done" =>
       /\ copyRun.flow # "internal error: inconsistent ri/wi"
       /\ copyRun.flow = "ok" => copyRun.ri = 0 /\ copyRun.wi = 0

\* C28: in copy_to_image_buffer uncompressed_ri <= uncompressed_wi <= 4096
\* holds at every turn of the loop, "internal error: inconsistent ri/wi" is
\* never returned, the loop comes to its end, and a successful return leaves
\* uncompressed_ri = uncompressed_wi = 0, given that copy_from_slice returns
\* at most the lengths of its source and destination.
C28_CopyIndexes == []CopyIndexesInOrder /\ ((copyRun.pc = "loop") ~> (copyRun.pc = "done"))

\* A call has gone through the loop, has moved on to the row below, has
\* met the end of the bytes inside that row, and has returned ok.
C28_Witness ==
  /\ copyRun.pc = "done" /\ copyRun.flow = "ok" /\ copyRun.entered
  /\ copyRun.ri = 0 /\ copyRun.wi = 0
  /\ copyRun.dst_y = 1 /\ copyRun.dst_x0 = 0 /\ copyRun.dst_x = 1
  /\ copyRun.dst_x1 = 3 /\ copyRun.width = 2

(***************************************************************************)
(* Claims about zlib's decode.                                             *)
(***************************************************************************)
\* x passes the four checks of the header.
HeaderPasses(x) ==
  /\ (x \div 256) % 16 = 8
  /\ x \div 4096 <= 7
  /\ (x \div 32) % 2 = 0
  /\ x % 31 = 0

\* C29: while ignore_checksum has been false throughout, the bytes fed to
\* checksum.update are the bytes written to dst, each once and in their
\* order, over every suspension and resumption; decode returns ok only if
\* the header passed its four checks and, unless ignore_checksum, the
\* checksum equals the trailing u32; with ignore_checksum it never returns
\* "bad checksum".
C29_ChecksumCoversOutput ==
  zlibRun.pc # "idle" =>
    /\ ~zlibRun.everIgnored =>
         /\ zlibRun.fed = zlibRun.written
         /\ (zlibRun.pc = "trailer" \/ zlibRun.status \in {"ok", "bad checksum"}) =>
              zlibRun.checksum_got = Adler32(zlibRun.written)
    /\ (zlibRun.pc = "done" /\ zlibRun.status = "ok") =>
         /\ HeaderPasses(zlibRun.x)
         /\ ~zlibRun.ignore_checksum => zlibRun.checksum_got = zlibRun.checksum_want
    /\ (zlibRun.pc = "done" /\ zlibRun.ignore_checksum) =>
         zlibRun.status # "bad checksum"

\* A decode that was suspended twice inside the payload, each time after
\* writing, has returned ok with the checksum of the whole payload.
C29_Witness ==
  /\ zlibRun.pc = "done" /\ zlibRun.status = "ok"
  /\ ~zlibRun.everIgnored
  /\ zlibRun.suspensions = 2
  /\ zlibRun.mark = 2
  /\ zlibRun.written = Payload
  /\ zlibRun.checksum_want = Adler32(Payload)

(***************************************************************************)
(* Claims about the symmetry of Eq.                                        *)
(***************************************************************************)
\* The type n without its refinement bounds: lhs and mhs are kept on the
\* array types, where lhs is the length.
RECURSIVE WithoutRefinements(_)
WithoutRefinements(n) ==
  IF n.addr = 0 THEN n
  ELSE [n EXCEPT !.lhs = IF n.id0 = IDArray THEN @ ELSE Nil,
                 !.mhs = IF n.id0 = IDArray THEN @ ELSE Nil,
                 !.rhs = WithoutRefinements(@)]

\* The decorators and names of the levels of type n, and its array lengths.
RECURSIVE LevelIDs(_)
LevelIDs(n) ==
  IF n.addr = 0 THEN <<>> ELSE <<<<n.id0, n.id1, n.id2>>>> \o LevelIDs(n.rhs)

\* C30: Expr.Eq, TypeExpr.Eq and EqIgnoringRefinements give the same answer
\* when their two arguments are exchanged, a nil argument included;
\* TypeExpr.Eq implies EqIgnoringRefinements, which is Eq of the two types
\* without the refinement bounds of their levels that are no arrays: the
\* decorators, the names and the array lengths of every level are compared.
C30_EqSymmetric ==
  /\ eqRes \in {"true", "false"} => (eqRes = "true" <=> ExprEq(eqO, eqN))
  /\ eqRes \in {"type: true", "type: false"} =>
       /\ eqRes = "type: true" <=> TypeEq(AsType(eqO), AsType(eqN))
       /\ eqRes = "type: true" => EqIgnoringRefinements(AsType(eqN), AsType(eqO))
  /\ eqRes \in {"ignoring: true", "ignoring: false"} =>
       /\ eqRes = "ignoring: true" <=> EqIgnoringRefinements(AsType(eqO), AsType(eqN))
       /\ eqRes = "ignoring: true" <=>
            TypeEq(WithoutRefinements(AsType(eqN)), WithoutRefinements(AsType(eqO)))
       /\ eqRes = "ignoring: true" => LevelIDs(AsType(eqN)) = LevelIDs(AsType(eqO))

\* slice array[2] base.u8[1..2] was compared with slice array[3]
\* base.u8[1..3], ignoring refinements: the lengths differ.
C30_Witness ==
  /\ eqRes = "ignoring: false"
  /\ eqN.addr # 0 /\ eqO.addr # 0
  /\ AsType(eqN).id0 = IDSlice /\ AsType(eqO).id0 = IDSlice
  /\ AsType(eqN).addr # AsType(eqO).addr
  /\ LevelIDs(AsType(eqN)) = LevelIDs(AsType(eqO))

====
